---- MODULE Spec2Model ----
(***************************************************************************)
(* kyoto-reader: construction of the document annotation graph             *)
(* (Document._analyze_rel, Document._add_corefs, Document._merge_entities, *)
(* Entity.add_mention, Pas.add_argument ...) as a state machine.           *)
(*                                                                         *)
(* Labels are written in ASCII.  A relation type is a sequence of          *)
(* characters, so that endswith / rstrip / lstrip are real operations:     *)
(*   <<"ga">> = GA case, <<"ga","approx">> = GA case with the uncertain    *)
(*   marker, <<"eq">> = coreference, <<"eq","approx">> = uncertain         *)
(*   coreference, <<"han","ga">> = HAN-GA, <<"no","Q">> = NO?.             *)
(* Exophor labels: "author", "reader", "unspec_person" (productive),       *)
(* "nashi" (no referent), "None" (Python None).                            *)
(***************************************************************************)
EXTENDS Integers, Sequences, FiniteSets, TLC

\* ---------------------------------------------------------------- bounds
NumPhrases == 3          \* base phrases in the input document
MaxRels == 2             \* relation markers read in one document
SentLen == 2             \* base phrases per input sentence
MaxSents == 3            \* sentences of a document handed to the assembly
MaxEid == 2              \* largest eid an argument of a pas tag asks for
MaxTags == 2             \* tags of the sentence handed to the NE extraction
MaxMrphs == 2            \* morphemes of one tag of that sentence

\* ------------------------------------------------------- program constants
NoneEid == -1            \* eid argument left out (None); handled like eid < 0
NoneTid == -1            \* no target phrase (target_mention is None)

Phrases == 0 .. (NumPhrases - 1)

\* constants.py ALL_CASES (a sample), ALL_COREFS, ALL_EXOPHORS (a sample)
BASE_CASES == {<<"ga">>, <<"wo">>, <<"ni">>, <<"no">>, <<"no", "Q">>, <<"han", "ga">>}
ALL_CASES == BASE_CASES \cup {Append(c, "approx") : c \in BASE_CASES}
BASE_COREFS == {<<"eq">>}
ALL_COREFS == BASE_COREFS \cup {Append(c, "approx") : c \in BASE_COREFS}
ALL_EXOPHORS == {"author", "unspec_person"}
PRODUCTIVE == {"unspec_person"}

\* Document(cases=..., corefs=...): the active relation types.  <<"ni">> is a
\* known case that the caller did not ask for.
cases == ALL_CASES \ {<<"ni">>, <<"ni", "approx">>}
corefs == ALL_COREFS

\* ------------------------------------------------ the parsed input document
\* sentence k holds the phrases SentLen*k .. SentLen*k + SentLen - 1
SidOf(d) == d \div SentLen
TidOf(d) == d % SentLen
Sids == {SidOf(d) : d \in Phrases}
SentencePhrases(s) == {d \in Phrases : SidOf(d) = s}
\* dependency tree of a sentence: every phrase depends on the last phrase
ParentOf(d) ==
    LET last == CHOOSE x \in SentencePhrases(SidOf(d)) :
                    \A y \in SentencePhrases(SidOf(d)) : y <= x
    IN  IF d = last THEN NoneTid ELSE last
ChildrenOf(d) == {c \in Phrases : ParentOf(c) = d}
\* tag.features keys of a phrase
Features(d) ==
    (IF d % 2 = 0 THEN {<<"taigen">>} ELSE {<<"yougen">>})
    \cup (IF d % SentLen = 0 THEN {<<"ga">>} ELSE {})
\* tag.features['kakari'] (the dependency-case feature) of a phrase
Kakari(d) == IF d % (2 * SentLen) = 0 THEN "ga_kaku" ELSE "no_kaku"

\* the relation markers the input may carry
NoneSid == -1            \* rel.sid is None
BadSid == -2             \* a sentence id that is not in the document
MissingTid == -2         \* rel.tid is None: the marker has no phrase index
RelTypes == {<<"ga">>, <<"ga", "approx">>, <<"ni">>, <<"zz">>}
CaseModes == {""}
CorefModes == {"", "AND", "OR", "Q"}
Targets == ALL_EXOPHORS \cup {"nashi", "unknown"}
PhraseRels(types, modes) ==
    [atype : types, sid : Sids \cup {BadSid}, tid : (0 .. SentLen) \cup {MissingTid},
     target : {"None"}, mode : modes]
ExoRels(types, modes) ==
    [atype : types, sid : {NoneSid}, tid : {NoneTid}, target : Targets, mode : modes]

\* ---------------------------------------------------------------- state
VARIABLES
    entities,    \* Document.entities : eid -> Entity
    mentions,    \* Document.mentions : dtid -> Mention (eids, eids_unc)
    pas_tbl,     \* Document._pas     : dtid -> Pas.arguments
    pas,         \* the local Pas of the phrase being analysed
    bp,          \* the phrase being analysed (loop variable of _analyze_rel)
    pc,          \* position in _analyze_rel / _add_corefs
    relax_cases, \* Document.relax_cases
    nrels,       \* relation markers read so far
    src,         \* _add_corefs: source phrase
    tgt,         \* _add_corefs: target phrase or NoneTid
    exo,         \* _add_corefs: rel.target when there is no target phrase
    uncertain,   \* _add_corefs: rel.atype.endswith(approx)
    src_eids,    \* _add_corefs: rest of the iteration over source_mention.all_eids
    tgt_eids,    \* _add_corefs: rest of the iteration over target_mention.all_eids
    se,          \* _add_corefs: eid of source_entity in the current iteration
    err,         \* exception that ended the construction, or "none"
    retired,     \* history: eids of the entities deleted so far
    last_merge,  \* history: branch taken by the last _merge_entities call
    qres,        \* the last get_arguments call and its result
    got,         \* the last Document[sid] / process_document call and its outcome
    asm,         \* Document.__init__: the assembly of the sentences
    ne           \* Document._extract_nes: the sentence read and named_entities

vars == <<entities, mentions, pas_tbl, pas, bp, pc, relax_cases, nrels,
          src, tgt, exo, uncertain, src_eids, tgt_eids, se, err, retired,
          last_merge, qres, got, asm, ne>>

\* the state outside _analyze_rel and get_arguments
outside == <<got, asm, ne>>

\* ------------------------------------------------------------- utilities
EmptyFn == [x \in {} |-> 0]
Max(S) == CHOOSE x \in S : \A y \in S : y <= x

RECURSIVE Perms(_)
\* every order in which a Python set can be iterated
Perms(S) ==
    IF S = {} THEN {<<>>}
    ELSE UNION {{<<x>> \o p : p \in Perms(S \ {x})} : x \in S}

endswith(s, ch) == Len(s) > 0 /\ s[Len(s)] = ch

RECURSIVE rstrip(_, _)
rstrip(s, ch) == IF endswith(s, ch) THEN rstrip(SubSeq(s, 1, Len(s) - 1), ch) ELSE s

RECURSIVE lstrip(_, _)
lstrip(s, ch) == IF Len(s) > 0 /\ s[1] = ch THEN lstrip(Tail(s), ch) ELSE s

\* ------------------------------------------------ coreference.py: Mention
all_eids(m) == m.eids \cup m.eids_unc

\* Mention.is_uncertain_to; the assertion is checked by the callers
is_uncertain_to(G, d, k) == G.ent[k].eid \notin G.men[d].eids
is_uncertain_to_ok(G, d, k) == G.ent[k].eid \in all_eids(G.men[d])

\* ------------------------------------------------- coreference.py: Entity
NewEntity(eid, exophor) ==
    [eid |-> eid, exophor |-> exophor, mentions |-> {}, mentions_unc |-> {},
     taigen |-> "None", yougen |-> "None"]

all_mentions(e) == e.mentions \cup e.mentions_unc

\* remove_mention that forgets to update the mention's own eid sets
remove_mention_entity_only(G, k, d) ==
    [G EXCEPT !.ent[k].mentions = @ \ {d}, !.ent[k].mentions_unc = @ \ {d}]

\* G is the pair of tables [ent |-> entities, men |-> mentions]
remove_mention(G, k, d) ==
    LET e == G.ent[k]
        m == G.men[d]
        eid == e.eid
    IN  [ent |-> [G.ent EXCEPT ![k] =
                    [e EXCEPT !.mentions = @ \ {d}, !.mentions_unc = @ \ {d}]],
         men |-> [G.men EXCEPT ![d] =
                    [eids |-> IF d \in e.mentions THEN m.eids \ {eid} ELSE m.eids,
                     eids_unc |-> IF d \in e.mentions_unc
                                  THEN m.eids_unc \ {eid} ELSE m.eids_unc]]]

\* a flag that follows the last mention added
Tri_last(old, has) == IF has THEN "True" ELSE "False"

Tri(old, has) == IF old # "False" /\ has THEN "True" ELSE "False"

SetFlags(G, k, d) ==
    [G EXCEPT !.ent[k].yougen = Tri(@, <<"yougen">> \in Features(d)),
              !.ent[k].taigen = Tri(@, <<"taigen">> \in Features(d))]

\* add_mention whose uncertain link overrides a certain one
add_mention_downgrade(G, k, d, unc) ==
    LET eid == G.ent[k].eid
        G0 == IF d \in all_mentions(G.ent[k]) THEN remove_mention(G, k, d) ELSE G
    IN  IF unc
        THEN SetFlags([G0 EXCEPT !.men[d].eids_unc = @ \cup {eid},
                                 !.ent[k].mentions_unc = @ \cup {d}], k, d)
        ELSE SetFlags([G0 EXCEPT !.men[d].eids = @ \cup {eid},
                                 !.ent[k].mentions = @ \cup {d}], k, d)

\* add_mention that leaves the uncertain link in place when it adds the
\* certain one
add_mention_keep_uncertain(G, k, d, unc) ==
    LET eid == G.ent[k].eid
    IN  IF unc
        THEN IF d \in all_mentions(G.ent[k])
             THEN G
             ELSE SetFlags([G EXCEPT !.men[d].eids_unc = @ \cup {eid},
                                     !.ent[k].mentions_unc = @ \cup {d}], k, d)
        ELSE SetFlags([G EXCEPT !.men[d].eids = @ \cup {eid},
                                !.ent[k].mentions = @ \cup {d}], k, d)

\* add_mention that links every mention as a certain one
add_mention_ignore_uncertain(G, k, d, unc) ==
    LET eid == G.ent[k].eid
        G1 == IF d \in G.ent[k].mentions_unc THEN remove_mention(G, k, d) ELSE G
    IN  SetFlags([G1 EXCEPT !.men[d].eids = @ \cup {eid},
                            !.ent[k].mentions = @ \cup {d}], k, d)

\* Entity.add_mention of the entity stored under key k
add_mention(G, k, d, unc) ==
    LET eid == G.ent[k].eid
    IN  IF unc
        THEN IF d \in all_mentions(G.ent[k])
             THEN G
             ELSE SetFlags([G EXCEPT !.men[d].eids_unc = @ \cup {eid},
                                     !.ent[k].mentions_unc = @ \cup {d}], k, d)
        ELSE LET G1 == IF d \in G.ent[k].mentions_unc
                       THEN remove_mention(G, k, d) ELSE G
             IN  SetFlags([G1 EXCEPT !.men[d].eids = @ \cup {eid},
                                     !.ent[k].mentions = @ \cup {d}], k, d)

\* --------------------------------------------------- document.py: Document
\* _create_entity without the lookup of an existing singleton entity
_create_entity_always_new(G, exophor, eid) ==
    LET eids == {G.ent[k].eid : k \in DOMAIN G.ent}
        new == IF eids # {} THEN Max(eids) + 1 ELSE 0
    IN  [G |-> [G EXCEPT !.ent = [k \in DOMAIN G.ent \cup {new} |->
                    IF k = new THEN NewEntity(new, exophor) ELSE G.ent[k]]],
         eid |-> new, ok |-> TRUE, created |-> TRUE]

\* _create_entity that looks up an existing entity for every exophor
_create_entity_all_singleton(G, exophor, eid) ==
    LET found == {k \in DOMAIN G.ent : G.ent[k].exophor = exophor}
        eids == {G.ent[k].eid : k \in DOMAIN G.ent}
        new == IF eids # {} THEN Max(eids) + 1 ELSE 0
    IN  IF exophor # "None" /\ found # {}
        THEN [G |-> G, eid |-> CHOOSE k \in found : TRUE,
              ok |-> Cardinality(found) = 1, created |-> FALSE]
        ELSE [G |-> [G EXCEPT !.ent = [k \in DOMAIN G.ent \cup {new} |->
                        IF k = new THEN NewEntity(new, exophor) ELSE G.ent[k]]],
              eid |-> new, ok |-> TRUE, created |-> TRUE]

\* _create_entity that stores the entity under the requested eid even when a
\* live entity has it
_create_entity_requested_wins(G, exophor, eid) ==
    LET found == {k \in DOMAIN G.ent : G.ent[k].exophor = exophor}
        eids == {G.ent[k].eid : k \in DOMAIN G.ent}
        new == IF eid < 0 THEN (IF eids # {} THEN Max(eids) + 1 ELSE 0) ELSE eid
    IN  IF exophor # "None" /\ exophor \notin PRODUCTIVE /\ found # {}
        THEN [G |-> G, eid |-> CHOOSE k \in found : TRUE,
              ok |-> Cardinality(found) = 1, created |-> FALSE]
        ELSE [G |-> [G EXCEPT !.ent = [k \in DOMAIN G.ent \cup {new} |->
                        IF k = new THEN NewEntity(new, exophor) ELSE G.ent[k]]],
              eid |-> new, ok |-> TRUE, created |-> TRUE]

\* Document._create_entity: [G, eid, ok, created]; ok is the assertion
\* len(entities) == 1, eid the key of the entity returned
_create_entity(G, exophor, eid) ==
    LET found == {k \in DOMAIN G.ent : G.ent[k].exophor = exophor}
        eids == {G.ent[k].eid : k \in DOMAIN G.ent}
        new == IF eid \in eids THEN Max(eids) + 1
               ELSE IF eid < 0 THEN (IF eids # {} THEN Max(eids) + 1 ELSE 0)
               ELSE eid
    IN  IF exophor # "None" /\ exophor \notin PRODUCTIVE /\ found # {}
        THEN [G |-> G, eid |-> CHOOSE k \in found : TRUE,
              ok |-> Cardinality(found) = 1, created |-> FALSE]
        ELSE [G |-> [G EXCEPT !.ent = [k \in DOMAIN G.ent \cup {new} |->
                        IF k = new THEN NewEntity(new, exophor) ELSE G.ent[k]]],
              eid |-> new, ok |-> TRUE, created |-> TRUE]

\* _create_mention that opens a new cluster on every call
_create_mention_always(G, d) ==
    LET G1 == [G EXCEPT !.men = [x \in DOMAIN G.men \cup {d} |->
                   IF x \in DOMAIN G.men THEN G.men[x]
                   ELSE [eids |-> {}, eids_unc |-> {}]]]
        r == _create_entity(G1, "None", NoneEid)
    IN  add_mention(r.G, r.eid, d, FALSE)

\* Document._create_mention
_create_mention(G, d) ==
    IF d \notin DOMAIN G.men
    THEN LET G1 == [G EXCEPT !.men = [x \in DOMAIN G.men \cup {d} |->
                        IF x = d THEN [eids |-> {}, eids_unc |-> {}] ELSE G.men[x]]]
             r == _create_entity(G1, "None", NoneEid)
         IN  add_mention(r.G, r.eid, d, FALSE)
    ELSE G

RECURSIVE RemoveAll(_, _, _)
RemoveAll(G, k, ds) ==
    IF ds = {} THEN G
    ELSE LET d == CHOOSE x \in ds : TRUE
         IN  RemoveAll(remove_mention(G, k, d), k, ds \ {d})

\* Document._delete_entity
_delete_entity(G, eid) ==
    IF eid \notin DOMAIN G.ent THEN G
    ELSE LET G1 == RemoveAll(G, eid, all_mentions(G.ent[eid]))
         IN  [G1 EXCEPT !.ent = [k \in DOMAIN G1.ent \ {eid} |-> G1.ent[k]]]

\* a merge that leaves the mentions of the target entity where they are
Relink_none(G, s, t, ds) == G

RECURSIVE Relink_all_certain(_, _, _, _)
\* the re-linking loop with uncertain=False for every mention
Relink_all_certain(G, s, t, ds) ==
    IF ds = {} THEN G
    ELSE LET d == CHOOSE x \in ds : TRUE
         IN  Relink_all_certain(add_mention(G, s, d, FALSE), s, t, ds \ {d})

RECURSIVE Relink(_, _, _, _)
\* for tm in te.all_mentions: se.add_mention(tm, uncertain=tm.is_uncertain_to(te))
Relink(G, s, t, ds) ==
    IF ds = {} THEN G
    ELSE LET d == CHOOSE x \in ds : TRUE
         IN  Relink(add_mention(G, s, d, is_uncertain_to(G, d, t)), s, t, ds \ {d})

\* a merge that leaves the eids of the arguments alone
RewriteEid_skip(P, from, to) == P

\* lines 328-330: the eid of every SpecialArgument that refers to entity
\* `from` becomes `to`
RewriteEid(P, from, to) ==
    [d \in DOMAIN P |-> [c \in DOMAIN P[d] |-> [i \in 1 .. Len(P[d][c]) |->
        IF P[d][c][i].kind = "exo" /\ P[d][c][i].eid = from
        THEN [P[d][c][i] EXCEPT !.eid = to] ELSE P[d][c][i]]]]

\* lines 305-312 with the uncertain link treated like a certain one
merge_same_any_link(G, sm, tm, s, unc, uncertain_src, uncertain_tgt) ==
    IF ~uncertain_src /\ uncertain_tgt
    THEN [G |-> add_mention(G, s, tm, FALSE), branch |-> "promote_target"]
    ELSE IF uncertain_src /\ ~uncertain_tgt
    THEN [G |-> add_mention(G, s, sm, FALSE), branch |-> "promote_source"]
    ELSE [G |-> G, branch |-> "same"]

\* Document._merge_entities lines 305-312: se is te
merge_same(G, sm, tm, s, unc, uncertain_src, uncertain_tgt) ==
    IF ~unc /\ ~uncertain_src /\ uncertain_tgt
    THEN [G |-> add_mention(G, s, tm, FALSE), branch |-> "promote_target"]
    ELSE IF ~unc /\ uncertain_src /\ ~uncertain_tgt
    THEN [G |-> add_mention(G, s, sm, FALSE), branch |-> "promote_source"]
    ELSE [G |-> G, branch |-> "same"]

\* _merge_entities whose source entity always takes the exophor of the target
_merge_entities_overwrite_exophor(G, P, sm, tm, s, t, unc) ==
    LET uncertain_tgt == tm # NoneTid /\ is_uncertain_to(G, tm, t)
        uncertain_src == is_uncertain_to(G, sm, s)
        ok == (tm # NoneTid => is_uncertain_to_ok(G, tm, t)) /\ is_uncertain_to_ok(G, sm, s)
        G1 == IF tm # NoneTid THEN add_mention(G, s, tm, unc \/ uncertain_src) ELSE G
        G2 == add_mention(G1, t, sm, unc \/ uncertain_tgt)
        G3 == [G2 EXCEPT !.ent[s].exophor = G2.ent[t].exophor]
        G4 == Relink(G3, s, t, all_mentions(G3.ent[t]))
    IN  IF ~ok THEN [G |-> G, P |-> P, ok |-> FALSE, branch |-> "assert"]
        ELSE IF s = t
        THEN LET r == merge_same(G, sm, tm, s, unc, uncertain_src, uncertain_tgt)
             IN  [G |-> r.G, P |-> P, ok |-> TRUE, branch |-> r.branch]
        ELSE IF uncertain_src \/ unc \/ uncertain_tgt
        THEN [G |-> G2, P |-> P, ok |-> TRUE, branch |-> "uncertain"]
        ELSE IF G2.ent[s].exophor # "None" /\ G2.ent[t].exophor # "None"
                /\ G2.ent[s].exophor # G2.ent[t].exophor
        THEN [G |-> G2, P |-> P, ok |-> TRUE, branch |-> "conflict"]
        ELSE [G |-> _delete_entity(G4, G4.ent[t].eid),
              P |-> RewriteEid(P, G4.ent[t].eid, G4.ent[s].eid), ok |-> TRUE,
              branch |-> "absorb"]

\* _merge_entities that does not compare the exophors
_merge_entities_ignore_conflict(G, P, sm, tm, s, t, unc) ==
    LET uncertain_tgt == tm # NoneTid /\ is_uncertain_to(G, tm, t)
        uncertain_src == is_uncertain_to(G, sm, s)
        ok == (tm # NoneTid => is_uncertain_to_ok(G, tm, t)) /\ is_uncertain_to_ok(G, sm, s)
        G1 == IF tm # NoneTid THEN add_mention(G, s, tm, unc \/ uncertain_src) ELSE G
        G2 == add_mention(G1, t, sm, unc \/ uncertain_tgt)
        G3 == IF G2.ent[s].exophor = "None"
              THEN [G2 EXCEPT !.ent[s].exophor = G2.ent[t].exophor] ELSE G2
        G4 == Relink(G3, s, t, all_mentions(G3.ent[t]))
    IN  IF ~ok THEN [G |-> G, P |-> P, ok |-> FALSE, branch |-> "assert"]
        ELSE IF s = t
        THEN LET r == merge_same(G, sm, tm, s, unc, uncertain_src, uncertain_tgt)
             IN  [G |-> r.G, P |-> P, ok |-> TRUE, branch |-> r.branch]
        ELSE IF uncertain_src \/ unc \/ uncertain_tgt
        THEN [G |-> G2, P |-> P, ok |-> TRUE, branch |-> "uncertain"]
        ELSE [G |-> _delete_entity(G4, G4.ent[t].eid),
              P |-> RewriteEid(P, G4.ent[t].eid, G4.ent[s].eid), ok |-> TRUE,
              branch |-> "absorb"]

\* _merge_entities that goes on to the deletion after an uncertain cross link
_merge_entities_no_stop(G, P, sm, tm, s, t, unc) ==
    LET uncertain_tgt == tm # NoneTid /\ is_uncertain_to(G, tm, t)
        uncertain_src == is_uncertain_to(G, sm, s)
        ok == (tm # NoneTid => is_uncertain_to_ok(G, tm, t)) /\ is_uncertain_to_ok(G, sm, s)
        G1 == IF tm # NoneTid THEN add_mention(G, s, tm, unc \/ uncertain_src) ELSE G
        G2 == add_mention(G1, t, sm, unc \/ uncertain_tgt)
        G3 == IF G2.ent[s].exophor = "None"
              THEN [G2 EXCEPT !.ent[s].exophor = G2.ent[t].exophor] ELSE G2
        G4 == Relink(G3, s, t, all_mentions(G3.ent[t]))
    IN  IF ~ok THEN [G |-> G, P |-> P, ok |-> FALSE, branch |-> "assert"]
        ELSE IF s = t
        THEN LET r == merge_same(G, sm, tm, s, unc, uncertain_src, uncertain_tgt)
             IN  [G |-> r.G, P |-> P, ok |-> TRUE, branch |-> r.branch]
        ELSE IF G2.ent[s].exophor # "None" /\ G2.ent[t].exophor # "None"
                /\ G2.ent[s].exophor # G2.ent[t].exophor
        THEN [G |-> G2, P |-> P, ok |-> TRUE, branch |-> "conflict"]
        ELSE [G |-> _delete_entity(G4, G4.ent[t].eid),
              P |-> RewriteEid(P, G4.ent[t].eid, G4.ent[s].eid), ok |-> TRUE,
              branch |-> "absorb"]

\* _merge_entities whose two cross links are uncertain as soon as the link or
\* either edge is
_merge_entities_any_uncertain(G, P, sm, tm, s, t, unc) ==
    LET uncertain_tgt == tm # NoneTid /\ is_uncertain_to(G, tm, t)
        uncertain_src == is_uncertain_to(G, sm, s)
        ok == (tm # NoneTid => is_uncertain_to_ok(G, tm, t)) /\ is_uncertain_to_ok(G, sm, s)
        any == unc \/ uncertain_src \/ uncertain_tgt
        G1 == IF tm # NoneTid THEN add_mention(G, s, tm, any) ELSE G
        G2 == add_mention(G1, t, sm, any)
        G3 == IF G2.ent[s].exophor = "None"
              THEN [G2 EXCEPT !.ent[s].exophor = G2.ent[t].exophor] ELSE G2
        G4 == Relink(G3, s, t, all_mentions(G3.ent[t]))
    IN  IF ~ok THEN [G |-> G, P |-> P, ok |-> FALSE, branch |-> "assert"]
        ELSE IF s = t
        THEN LET r == merge_same(G, sm, tm, s, unc, uncertain_src, uncertain_tgt)
             IN  [G |-> r.G, P |-> P, ok |-> TRUE, branch |-> r.branch]
        ELSE IF any
        THEN [G |-> G2, P |-> P, ok |-> TRUE, branch |-> "uncertain"]
        ELSE IF G2.ent[s].exophor # "None" /\ G2.ent[t].exophor # "None"
                /\ G2.ent[s].exophor # G2.ent[t].exophor
        THEN [G |-> G2, P |-> P, ok |-> TRUE, branch |-> "conflict"]
        ELSE [G |-> _delete_entity(G4, G4.ent[t].eid),
              P |-> RewriteEid(P, G4.ent[t].eid, G4.ent[s].eid), ok |-> TRUE,
              branch |-> "absorb"]

\* Document._merge_entities: [G, P, ok, branch]; ok is the assertion of
\* is_uncertain_to, branch names the return statement reached
_merge_entities(G, P, sm, tm, s, t, unc) ==
    LET uncertain_tgt == tm # NoneTid /\ is_uncertain_to(G, tm, t)
        uncertain_src == is_uncertain_to(G, sm, s)
        ok == (tm # NoneTid => is_uncertain_to_ok(G, tm, t)) /\ is_uncertain_to_ok(G, sm, s)
        G1 == IF tm # NoneTid THEN add_mention(G, s, tm, unc \/ uncertain_src) ELSE G
        G2 == add_mention(G1, t, sm, unc \/ uncertain_tgt)
        G3 == IF G2.ent[s].exophor = "None"
              THEN [G2 EXCEPT !.ent[s].exophor = G2.ent[t].exophor] ELSE G2
        G4 == Relink(G3, s, t, all_mentions(G3.ent[t]))
    IN  IF ~ok THEN [G |-> G, P |-> P, ok |-> FALSE, branch |-> "assert"]
        ELSE IF s = t
        THEN LET r == merge_same(G, sm, tm, s, unc, uncertain_src, uncertain_tgt)
             IN  [G |-> r.G, P |-> P, ok |-> TRUE, branch |-> r.branch]
        ELSE IF uncertain_src \/ unc \/ uncertain_tgt
        THEN [G |-> G2, P |-> P, ok |-> TRUE, branch |-> "uncertain"]
        ELSE IF G2.ent[s].exophor # "None" /\ G2.ent[t].exophor # "None"
                /\ G2.ent[s].exophor # G2.ent[t].exophor
        THEN [G |-> G2, P |-> P, ok |-> TRUE, branch |-> "conflict"]
        ELSE [G |-> _delete_entity(G4, G4.ent[t].eid),
              P |-> RewriteEid(P, G4.ent[t].eid, G4.ent[s].eid), ok |-> TRUE,
              branch |-> "absorb"]

\* _get_bp that takes the last phrase of the sentence for an index past it
_get_bp_clamp(sid, tid) ==
    IF sid \notin Sids \/ tid < 0 THEN NoneTid
    ELSE IF tid < Cardinality(SentencePhrases(sid)) THEN SentLen * sid + tid
    ELSE SentLen * sid + Cardinality(SentencePhrases(sid)) - 1

\* Document._get_bp: the dtid of the phrase, or NoneTid
_get_bp(sid, tid) ==
    IF 0 <= tid /\ tid < Cardinality(SentencePhrases(sid))
    THEN SentLen * sid + tid ELSE NoneTid

\* ------------------------------------------------------------ pas.py: Pas
\* Pas.arguments is a defaultdict(list): reading a key inserts it
Get(args, case) == IF case \in DOMAIN args THEN args[case] ELSE <<>>
Put(args, case, list) ==
    [c \in DOMAIN args \cup {case} |-> IF c = case THEN list ELSE args[c]]

Argument(d, dep_type, mode) ==
    [kind |-> "arg", dtid |-> d, exophor |-> "None", eid |-> NoneEid,
     dep_type |-> dep_type, mode |-> mode, optional |-> FALSE]
SpecialArgument(exophor, eid, mode) ==
    [kind |-> "exo", dtid |-> NoneTid, exophor |-> exophor, eid |-> eid,
     dep_type |-> "exo", mode |-> mode, optional |-> FALSE]

\* Argument.__eq__ / SpecialArgument.__eq__
ArgEq(a, b) ==
    IF a.kind = "arg" THEN b.kind = "arg" /\ a.dtid = b.dtid
    ELSE b.kind = "exo" /\ a.exophor = b.exophor

Contains(list, a) == \E i \in 1 .. Len(list) : ArgEq(a, list[i])

\* _get_dep_type that tests the sentence before the dependency tree
_get_dep_type_sentence_first(pred, arg, case) ==
    IF SidOf(arg) # SidOf(pred) THEN "inter"
    ELSE IF arg \notin ChildrenOf(pred) THEN "intra"
    ELSE IF (case \in {<<"no">>, <<"no", "Q">>} /\ Kakari(arg) \in {"no_kaku", "noQ_kaku"})
            \/ lstrip(case, "han") \in Features(arg)
         THEN "overt" ELSE "dep"

\* Pas._get_dep_type
_get_dep_type(pred, arg, case) ==
    IF arg \in ChildrenOf(pred)
    THEN IF (case \in {<<"no">>, <<"no", "Q">>} /\ Kakari(arg) \in {"no_kaku", "noQ_kaku"})
            \/ lstrip(case, "han") \in Features(arg)
         THEN "overt" ELSE "dep"
    ELSE IF arg = ParentOf(pred) THEN "dep"
    ELSE IF SidOf(arg) = SidOf(pred) THEN "intra"
    ELSE "inter"

\* add_argument without the membership test
add_argument_append(args, pred, case, d, mode) ==
    Put(args, case, Append(Get(args, case), Argument(d, _get_dep_type(pred, d, case), mode)))

\* Pas.add_argument
add_argument(args, pred, case, d, mode) ==
    LET a == Argument(d, _get_dep_type(pred, d, case), mode)
    IN  IF Contains(Get(args, case), a) THEN Put(args, case, Get(args, case))
        ELSE Put(args, case, Append(Get(args, case), a))

\* add_special_argument without the membership test
add_special_argument_append(args, case, exophor, eid, mode) ==
    Put(args, case, Append(Get(args, case), SpecialArgument(exophor, eid, mode)))

\* Pas.add_special_argument
add_special_argument(args, case, exophor, eid, mode) ==
    LET a == SpecialArgument(exophor, eid, mode)
    IN  IF Contains(Get(args, case), a) THEN Put(args, case, Get(args, case))
        ELSE Put(args, case, Append(Get(args, case), a))

\* set_arguments_optional that only reads the list
set_arguments_optional_noop(args, case) == Put(args, case, Get(args, case))

\* Pas.set_arguments_optional
set_arguments_optional(args, case) ==
    Put(args, case, [i \in 1 .. Len(Get(args, case)) |->
                        [Get(args, case)[i] EXCEPT !.optional = TRUE]])

\* ------------------------------------------- Document._analyze_rel, per rel
\* lines 121-123: relax_cases strips the uncertain marker of a case
Relaxed(rel, relax) ==
    IF relax /\ rel.atype \in ALL_CASES /\ endswith(rel.atype, "approx")
    THEN [rel EXCEPT !.atype = rstrip(rel.atype, "approx")] ELSE rel

\* lines 124-135: is the relation kept in rels
Valid(rel) ==
    /\ ~(rel.sid # NoneSid /\ rel.sid \notin Sids)
    /\ ~(rel.atype \in ALL_CASES \cup ALL_COREFS /\ rel.atype \notin cases \cup corefs)

\* a coreference pass that takes every combination mode
CorefMode_any(rel) == TRUE

\* line 165: the combination modes the coreference pass takes
CorefMode(rel) == rel.mode \in {"", "AND"}

\* lines 139-158: one relation in the PAS pass; [G, args, ok, crash]: ok is
\* false when an assertion fails, crash names it
ExtractPas(G, args, pred, rel) ==
    IF rel.atype \notin cases THEN [G |-> G, args |-> args, ok |-> TRUE, crash |-> "none"]
    ELSE IF rel.sid # NoneSid
    THEN IF rel.tid = MissingTid
         THEN [G |-> G, args |-> args, ok |-> FALSE, crash |-> "assert_tid"]
         ELSE LET arg_bp == _get_bp(rel.sid, rel.tid)
              IN  IF arg_bp = NoneTid
                  THEN [G |-> G, args |-> args, ok |-> TRUE, crash |-> "none"]
                  ELSE [G |-> _create_mention(G, arg_bp),
                        args |-> add_argument(args, pred, rel.atype, arg_bp, rel.mode),
                        ok |-> TRUE, crash |-> "none"]
    ELSE IF rel.target = "nashi"
    THEN [G |-> G, args |-> set_arguments_optional(args, rel.atype), ok |-> TRUE,
          crash |-> "none"]
    ELSE IF rel.target \notin ALL_EXOPHORS
    THEN [G |-> G, args |-> args, ok |-> TRUE, crash |-> "none"]
    ELSE LET r == _create_entity(G, rel.target, NoneEid)
         IN  [G |-> r.G,
              args |-> add_special_argument(args, rel.atype, rel.target, r.eid, rel.mode),
              ok |-> r.ok, crash |-> IF r.ok THEN "none" ELSE "assert_singleton"]

\* ------------------------------------------------- Document.get_arguments
\* iteration over a set of small ints (eids, dtids): ascending
RECURSIVE SortedSeq(_)
SortedSeq(S) ==
    IF S = {} THEN <<>>
    ELSE LET m == CHOOSE x \in S : \A y \in S : x <= y
         IN  <<m>> \o SortedSeq(S \ {m})

\* str(arg): neither class of this pas.py returns the bare exophor label
StrArg(arg) == IF arg.kind = "exo" THEN "<SpecialArgument object>" ELSE "midasi (sid, tid, dtid)"

\* Document.get_entities(arg, include_uncertain=True): eids in iteration order
get_entities(G, d) ==
    IF d \notin DOMAIN G.men THEN <<>> ELSE SortedSeq(all_eids(G.men[d]))

RECURSIVE RelaxMentions(_, _, _, _, _)
\* lines 499-502
RelaxMentions(res, pred, case, arg, ds) ==
    IF ds = <<>> THEN res
    ELSE IF arg.kind = "arg" /\ Head(ds) = arg.dtid
    THEN RelaxMentions(res, pred, case, arg, Tail(ds))
    ELSE RelaxMentions(add_argument(res, pred, case, Head(ds), "AND"),
                       pred, case, arg, Tail(ds))

RECURSIVE RelaxEntities(_, _, _, _, _, _)
\* lines 496-502
RelaxEntities(G, res, pred, case, arg, ks) ==
    IF ks = <<>> THEN res
    ELSE LET e == G.ent[Head(ks)]
             r1 == IF e.exophor # "None" /\ e.exophor # StrArg(arg)
                   THEN add_special_argument(res, case, e.exophor, e.eid, "AND")
                   ELSE res
             r2 == RelaxMentions(r1, pred, case, arg, SortedSeq(all_mentions(e)))
         IN  RelaxEntities(G, r2, pred, case, arg, Tail(ks))

\* lines 491-495: the entities of one recorded argument
ArgEntities(G, arg) ==
    IF arg.kind = "exo" THEN <<arg.eid>> ELSE get_entities(G, arg.dtid)

RECURSIVE RelaxArgs(_, _, _, _, _)
\* lines 490-502
RelaxArgs(G, res, pred, case, args) ==
    IF args = <<>> THEN res
    ELSE RelaxArgs(G, RelaxEntities(G, res, pred, case, Head(args),
                                    ArgEntities(G, Head(args))),
                   pred, case, Tail(args))

RECURSIVE RelaxCases(_, _, _, _, _)
\* lines 489-502
RelaxCases(G, res, pred, stored, cs) ==
    IF cs = {} THEN res
    ELSE LET c == CHOOSE x \in cs : TRUE
         IN  RelaxCases(G, RelaxArgs(G, res, pred, c, stored[c]), pred, stored, cs \ {c})

NotOptional(a) == ~a.optional

\* a filter that keeps every argument
FilterOptional_keep(args) == [c \in DOMAIN args \cup cases |-> Get(args, c)]

\* lines 484-486: every case of self.cases is read, hence becomes a key
FilterOptional(args) ==
    [c \in DOMAIN args \cup cases |->
        IF c \in cases THEN SelectSeq(Get(args, c), NotOptional) ELSE args[c]]

\* does a lookup self.entities[eid] of the relaxed query miss
QueryMisses(G, stored) ==
    \E c \in DOMAIN stored : \E i \in 1 .. Len(stored[c]) :
        \E j \in 1 .. Len(ArgEntities(G, stored[c][i])) :
            ArgEntities(G, stored[c][i])[j] \notin DOMAIN G.ent

\* a copy that keeps the stored dict and its Argument objects
CopyPas_shallow(args) == [arguments |-> args, shared |-> TRUE]

\* lines 479-480: copy.copy and the pickle round trip of pas.arguments; the
\* copy shares neither the dict nor the Argument objects with the stored Pas
CopyPas(args) == [arguments |-> args, shared |-> FALSE]

\* self._pas after get_arguments has written to its copy
StoredAfter(P, predicate, result) ==
    IF predicate \in DOMAIN P /\ CopyPas(P[predicate]).shared
    THEN [P EXCEPT ![predicate] = result] ELSE P

\* Document.get_arguments
get_arguments(G, P, predicate, relax, include_optional) ==
    IF predicate \notin DOMAIN P THEN EmptyFn
    ELSE LET args == CopyPas(P[predicate]).arguments
             copy == IF include_optional THEN args ELSE FilterOptional(args)
         IN  IF relax
             THEN RelaxCases(G, copy, predicate, P[predicate], DOMAIN P[predicate])
             ELSE copy

\* ------------------------------ Document.__init__: assembling sentences
\* an input sentence: its S-ID and, per base phrase, the number of morphemes
SidNames == 1 .. MaxSents
Layouts == {<<1>>, <<2, 1>>, <<1, 1, 2>>}
SentenceInputs == [sid : SidNames, mrphs : Layouts]
Documents == UNION {[1 .. n -> SentenceInputs] : n \in 0 .. MaxSents}

RECURSIVE Flatten(_)
Flatten(q) == IF q = <<>> THEN <<>> ELSE Head(q) \o Flatten(Tail(q))

RECURSIVE SumSeq(_)
SumSeq(q) == IF q = <<>> THEN 0 ELSE Head(q) + SumSeq(Tail(q))

\* BasePhrase.__init__: the dmids of the morphemes of one base phrase
BasePhrase(tid, n, dmid_offset, dtid, sid) ==
    [tid |-> tid, dtid |-> dtid, sid |-> sid,
     dmids |-> [j \in 1 .. n |-> dmid_offset + j - 1]]

\* a Sentence that numbers its phrases and morphemes from 0
Sentence_no_offset(inp, dtid_offset, dmid_offset) ==
    [sid |-> inp.sid,
     bps |-> [i \in 1 .. Len(inp.mrphs) |->
                BasePhrase(i - 1, inp.mrphs[i], SumSeq(SubSeq(inp.mrphs, 1, i - 1)),
                           i - 1, inp.sid)]]

\* Sentence.__init__ lines 40-49
Sentence(inp, dtid_offset, dmid_offset) ==
    [sid |-> inp.sid,
     bps |-> [i \in 1 .. Len(inp.mrphs) |->
                BasePhrase(i - 1, inp.mrphs[i],
                           dmid_offset + SumSeq(SubSeq(inp.mrphs, 1, i - 1)),
                           dtid_offset + i - 1, inp.sid)]]

\* len(sentence.mrph_list())
MrphCount(sentence) ==
    SumSeq([i \in 1 .. Len(sentence.bps) |-> Len(sentence.bps[i].dmids)])

\* Document.sentences: the values of the OrderedDict sid2sentence
Sentences(a) == [i \in 1 .. Len(a.order) |-> a.sid2sentence[a.order[i]]]

\* ------------------------------------- Document.__getitem__, KyotoReader
\* the documents the reader knows: KyotoReader.did2knps and did2pkls
did2knps == {"doc"}
did2pkls == {"pickled"}
DocIds == did2knps \cup did2pkls \cup {"unknown"}

\* the outcome of a lookup: the value returned (NoneSid / "None" for None),
\* whether an exception left the call, and the level of the log entry
Outcome(sentence, document, raised, logged) ==
    [sentence |-> sentence, document |-> document, raised |-> raised, logged |-> logged]

\* a lookup that raises for a sentence id it does not have
Document__getitem___raises(sid) ==
    IF sid \in Sids THEN Outcome(sid, "None", FALSE, "none")
    ELSE Outcome(NoneSid, "None", TRUE, "none")

\* Document.__getitem__
Document__getitem__(sid) ==
    IF sid \in Sids THEN Outcome(sid, "None", FALSE, "none")
    ELSE Outcome(NoneSid, "None", FALSE, "error")

\* KyotoReader.process_document
process_document(doc_id) ==
    IF doc_id \in did2pkls THEN Outcome(NoneSid, "unpickled Document", FALSE, "none")
    ELSE IF doc_id \in did2knps THEN Outcome(NoneSid, "Document", FALSE, "none")
    ELSE Outcome(NoneSid, "None", FALSE, "error")

\* ---------------------------------------------------------------- actions
Tables == [ent |-> entities, men |-> mentions]
\* history of the last merge call: the return statement reached, whether the
\* source entity took over the target's exophor, whether it took over an
\* uncertain mention it was not linked to
NoMerge == [branch |-> "none", adopted |-> FALSE, inherited |-> FALSE]
MergeNote(G, s, t, branch) ==
    [branch |-> branch,
     adopted |-> branch = "absorb" /\ G.ent[s].exophor = "None" /\ G.ent[t].exophor # "None",
     inherited |-> branch = "absorb"
                   /\ G.ent[t].mentions_unc \ all_mentions(G.ent[s]) # {}]
NoQuery ==
    [called |-> FALSE, predicate |-> NoneTid, relax |-> FALSE,
     include_optional |-> FALSE, result |-> EmptyFn]
NoLookup ==
    [called |-> FALSE, op |-> "none", sid |-> NoneSid, doc_id |-> "None",
     outcome |-> Outcome(NoneSid, "None", FALSE, "none")]
\* asm outside the assembly loop of Document.__init__
NotAssembling == [k |-> 0]
\* ne outside _extract_nes
NotExtracting == [t |-> 0]
LoopRest == <<src, tgt, exo, uncertain, src_eids, tgt_eids, se>>

Init ==
    /\ entities = EmptyFn
    /\ mentions = EmptyFn
    /\ pas_tbl = EmptyFn
    /\ pas = EmptyFn
    /\ bp = 0
    /\ pc = "pas"
    /\ relax_cases \in BOOLEAN
    /\ nrels = 0
    /\ src = NoneTid /\ tgt = NoneTid /\ exo = "None" /\ uncertain = FALSE
    /\ src_eids = <<>> /\ tgt_eids = <<>> /\ se = NoneEid
    /\ err = "none"
    /\ retired = {}
    /\ last_merge = NoMerge
    /\ qres = NoQuery
    /\ got = NoLookup
    /\ asm = NotAssembling
    /\ ne = NotExtracting

\* an exception ends the construction
Crash(kind) ==
    /\ err' = kind
    /\ pc' = "crashed"
    /\ UNCHANGED <<entities, mentions, pas_tbl, pas, bp, LoopRest, retired,
                   last_merge, qres, outside>>

\* _analyze_rel, PAS pass: the next relation marker of phrase bp
CaseRel(raw) ==
    /\ pc = "pas"
    /\ nrels < MaxRels
    /\ nrels' = nrels + 1
    /\ UNCHANGED relax_cases
    /\ LET rel == Relaxed(raw, relax_cases)
           r == ExtractPas(Tables, pas, bp, rel)
       IN  IF ~Valid(rel)
           THEN UNCHANGED <<entities, mentions, pas_tbl, pas, bp, pc, LoopRest,
                            err, retired, last_merge, qres, outside>>
           ELSE IF ~r.ok THEN Crash(r.crash)
           ELSE /\ entities' = r.G.ent
                /\ mentions' = r.G.men
                /\ pas' = r.args
                /\ UNCHANGED <<pas_tbl, bp, pc, LoopRest, err, retired, last_merge, qres, outside>>

\* _analyze_rel lines 159-160: keep the Pas, go on to the coreference pass
EndPas ==
    /\ pc = "pas"
    /\ pas_tbl' = IF DOMAIN pas # {}
                  THEN [d \in DOMAIN pas_tbl \cup {bp} |->
                            IF d = bp THEN pas ELSE pas_tbl[d]]
                  ELSE pas_tbl
    /\ pas' = EmptyFn
    /\ pc' = "coref"
    /\ UNCHANGED <<entities, mentions, bp, relax_cases, nrels, LoopRest, err,
                   retired, last_merge, qres, outside>>

\* _analyze_rel lines 163-166 and _add_corefs lines 195-210: the next
\* coreference marker of phrase bp, up to the start of the loop over eids
CorefRel(raw) ==
    /\ pc = "coref"
    /\ nrels < MaxRels
    /\ nrels' = nrels + 1
    /\ UNCHANGED <<relax_cases, pas_tbl, pas, bp, retired, last_merge, qres,
                   tgt_eids, se, outside>>
    /\ LET rel == Relaxed(raw, relax_cases)
           target_bp == IF rel.sid # NoneSid /\ rel.sid \in Sids
                        THEN _get_bp(rel.sid, rel.tid) ELSE NoneTid
           rejected == IF rel.sid # NoneSid
                       THEN target_bp = NoneTid \/ target_bp = bp
                       ELSE rel.target \notin ALL_EXOPHORS
           G1 == _create_mention(Tables, bp)
       IN  IF ~Valid(rel) \/ rel.atype \notin corefs \/ ~CorefMode(rel)
           THEN UNCHANGED <<entities, mentions, pc, src, tgt, exo, uncertain, src_eids, err>>
           \* _get_bp line 368 compares 0 <= tid with tid None: TypeError
           ELSE IF rel.sid # NoneSid /\ rel.tid = MissingTid THEN Crash("TypeError")
           ELSE IF rejected
           THEN UNCHANGED <<entities, mentions, pc, src, tgt, exo, uncertain, src_eids, err>>
           ELSE /\ UNCHANGED err
                /\ entities' = G1.ent
                /\ mentions' = G1.men
                /\ src' = bp
                /\ tgt' = target_bp
                /\ exo' = rel.target
                /\ uncertain' = endswith(rel.atype, "approx")
                /\ src_eids' \in Perms(all_eids(G1.men[bp]))
                /\ pc' = "outer"

\* _add_corefs lines 210-222: one iteration of the loop over the source eids
CorefOuter ==
    /\ pc = "outer"
    /\ UNCHANGED <<relax_cases, nrels, pas, bp, qres, outside>>
    /\ IF src_eids = <<>>
       THEN /\ pc' = "coref"
            /\ src' = NoneTid /\ tgt' = NoneTid /\ exo' = "None" /\ uncertain' = FALSE
            /\ last_merge' = NoMerge
            /\ UNCHANGED <<entities, mentions, pas_tbl, src_eids, tgt_eids, se,
                           err, retired>>
       ELSE LET eid == Head(src_eids)
            IN  IF eid \notin DOMAIN entities
                THEN /\ src_eids' = Tail(src_eids)
                     /\ UNCHANGED <<entities, mentions, pas_tbl, pc, src, tgt, exo,
                                    uncertain, tgt_eids, se, err, retired, last_merge>>
                ELSE IF tgt # NoneTid
                THEN LET G1 == _create_mention(Tables, tgt)
                     IN  /\ entities' = G1.ent
                         /\ mentions' = G1.men
                         /\ src_eids' = Tail(src_eids)
                         /\ se' = eid
                         /\ tgt_eids' \in Perms(all_eids(G1.men[tgt]))
                         /\ pc' = "inner"
                         /\ UNCHANGED <<pas_tbl, src, tgt, exo, uncertain, err, retired,
                                        last_merge>>
                ELSE LET r == _create_entity(Tables, exo, NoneEid)
                         m == _merge_entities(r.G, pas_tbl, src, NoneTid, eid, r.eid,
                                              uncertain)
                     IN  IF ~r.ok THEN Crash("assert_singleton")
                         ELSE IF ~m.ok THEN Crash("assert_is_uncertain_to")
                         ELSE /\ entities' = m.G.ent
                              /\ last_merge' = MergeNote(r.G, eid, r.eid, m.branch)
                              /\ mentions' = m.G.men
                              /\ pas_tbl' = m.P
                              /\ retired' = retired \cup (DOMAIN r.G.ent \ DOMAIN m.G.ent)
                              /\ src_eids' = Tail(src_eids)
                              /\ UNCHANGED <<pc, src, tgt, exo, uncertain, tgt_eids,
                                             se, err>>

\* _add_corefs lines 217-219: one iteration of the loop over the target eids
CorefInner ==
    /\ pc = "inner"
    /\ UNCHANGED <<relax_cases, nrels, pas, bp, qres, outside>>
    /\ IF tgt_eids = <<>>
       THEN /\ pc' = "outer"
            /\ se' = NoneEid
            /\ UNCHANGED <<entities, mentions, pas_tbl, src, tgt, exo, uncertain,
                           src_eids, tgt_eids, err, retired, last_merge>>
       ELSE LET target_eid == Head(tgt_eids)
                m == _merge_entities(Tables, pas_tbl, src, tgt, se, target_eid, uncertain)
            IN  IF target_eid \notin DOMAIN entities
                THEN Crash("KeyError")
                ELSE IF ~m.ok THEN Crash("assert_is_uncertain_to")
                ELSE /\ entities' = m.G.ent
                     /\ last_merge' = MergeNote(Tables, se, target_eid, m.branch)
                     /\ mentions' = m.G.men
                     /\ pas_tbl' = m.P
                     /\ retired' = retired \cup (DOMAIN entities \ DOMAIN m.G.ent)
                     /\ tgt_eids' = Tail(tgt_eids)
                     /\ UNCHANGED <<pc, src, tgt, exo, uncertain, src_eids, se, err>>

\* _add_corefs lines 210-222 as a function of the iteration order: the set of
\* the results [G, P, err] the two loops can end with, one for every order
\* in which the eids of target_mention.all_eids (T) and of
\* source_mention.all_eids (S) are handed out
RECURSIVE Explicit(_, _)
\* a table (self.entities, self.mentions) written out entry by entry
Explicit(f, D) ==
    IF D = {} THEN EmptyFn
    ELSE LET x == CHOOSE y \in D : TRUE
         IN  (x :> f[x]) @@ Explicit(f, D \ {x})

\* the tables and the stored Pas at the end of the loops, and the exception
\* that ended them, if any
Result(G, P, kind) ==
    [G |-> [ent |-> Explicit(G.ent, DOMAIN G.ent), men |-> Explicit(G.men, DOMAIN G.men)],
     P |-> P, err |-> kind]

RECURSIVE AddCorefsInner(_, _, _, _, _, _, _)
\* lines 217-219: the loop over the target eids still to come
AddCorefsInner(G, P, sm, tm, s, unc, T) ==
    IF T = {} THEN {Result(G, P, "none")}
    ELSE UNION {
        IF t \notin DOMAIN G.ent THEN {Result(G, P, "KeyError")}
        ELSE LET m == _merge_entities(G, P, sm, tm, s, t, unc)
             IN  IF ~m.ok THEN {Result(G, P, "assert_is_uncertain_to")}
                 ELSE AddCorefsInner(m.G, m.P, sm, tm, s, unc, T \ {t}) : t \in T}

RECURSIVE AddCorefsOuter(_, _, _, _, _, _, _)
\* lines 210-222: the loop over the source eids still to come
AddCorefsOuter(G, P, sm, tm, x, unc, S) ==
    IF S = {} THEN {Result(G, P, "none")}
    ELSE UNION {
        IF eid \notin DOMAIN G.ent THEN AddCorefsOuter(G, P, sm, tm, x, unc, S \ {eid})
        ELSE IF tm # NoneTid
        THEN LET G1 == _create_mention(G, tm)
             IN  UNION {IF o.err # "none" THEN {o}
                        ELSE AddCorefsOuter(o.G, o.P, sm, tm, x, unc, S \ {eid}) :
                            o \in AddCorefsInner(G1, P, sm, tm, eid, unc,
                                                 all_eids(G1.men[tm]))}
        ELSE LET r == _create_entity(G, x, NoneEid)
                 m == _merge_entities(r.G, P, sm, NoneTid, eid, r.eid, unc)
             IN  IF ~r.ok THEN {Result(G, P, "assert_singleton")}
                 ELSE IF ~m.ok THEN {Result(G, P, "assert_is_uncertain_to")}
                 ELSE AddCorefsOuter(m.G, m.P, sm, tm, x, unc, S \ {eid}) : eid \in S}

\* _analyze_rel line 118: the next phrase, or the end of the document
NextBp ==
    /\ pc = "coref"
    /\ IF bp + 1 < NumPhrases
       THEN bp' = bp + 1 /\ pc' = "pas"
       ELSE bp' = bp /\ pc' = "done"
    /\ UNCHANGED <<entities, mentions, pas_tbl, pas, relax_cases, nrels, LoopRest,
                   err, retired, last_merge, qres, outside>>

\* Document.get_arguments on the built document
Query(predicate, relax, include_optional) ==
    /\ pc = "done"
    /\ ~qres.called /\ ~got.called
    /\ IF relax /\ predicate \in DOMAIN pas_tbl /\ QueryMisses(Tables, pas_tbl[predicate])
       THEN err' = "KeyError" /\ UNCHANGED qres
       ELSE /\ qres' = [called |-> TRUE, predicate |-> predicate, relax |-> relax,
                        include_optional |-> include_optional,
                        result |-> get_arguments(Tables, pas_tbl, predicate, relax,
                                                 include_optional)]
            /\ UNCHANGED err
    /\ pas_tbl' = IF err' = "KeyError" THEN pas_tbl
                  ELSE StoredAfter(pas_tbl, predicate, qres'.result)
    /\ UNCHANGED <<entities, mentions, pas, bp, pc, relax_cases, nrels,
                   LoopRest, retired, last_merge, outside>>

\* Document[sid] on the built document
GetItem(sid) ==
    /\ pc = "done"
    /\ ~qres.called /\ ~got.called
    /\ got' = [called |-> TRUE, op |-> "getitem", sid |-> sid, doc_id |-> "None",
               outcome |-> Document__getitem__(sid)]
    /\ UNCHANGED <<entities, mentions, pas_tbl, pas, bp, pc, relax_cases, nrels,
                   LoopRest, err, retired, last_merge, qres, asm, ne>>

\* KyotoReader.process_document
ProcessDocument(doc_id) ==
    /\ pc = "done"
    /\ ~qres.called /\ ~got.called
    /\ got' = [called |-> TRUE, op |-> "process_document", sid |-> NoneSid,
               doc_id |-> doc_id, outcome |-> process_document(doc_id)]
    /\ UNCHANGED <<entities, mentions, pas_tbl, pas, bp, pc, relax_cases, nrels,
                   LoopRest, err, retired, last_merge, qres, asm, ne>>

\* Document.__init__ lines 64-74: one turn of the loop over the sentences
AddSentence ==
    /\ asm.k < Len(asm.input)
    /\ LET sentence == Sentence(asm.input[asm.k + 1], asm.dtid, asm.dmid)
           sid == sentence.sid
       IN  asm' = [input |-> asm.input,
                   k |-> asm.k + 1,
                   dtid |-> asm.dtid + Len(sentence.bps),
                   dmid |-> asm.dmid + MrphCount(sentence),
                   order |-> IF sid \in DOMAIN asm.sid2sentence THEN asm.order
                             ELSE Append(asm.order, sid),
                   sid2sentence |-> [x \in DOMAIN asm.sid2sentence \cup {sid} |->
                                        IF x = sid THEN sentence ELSE asm.sid2sentence[x]]]
    /\ UNCHANGED <<entities, mentions, pas_tbl, pas, bp, pc, relax_cases, nrels,
                   LoopRest, err, retired, last_merge, qres, got, ne>>

Next ==
    \/ \E raw \in PhraseRels(RelTypes, CaseModes) \cup ExoRels(RelTypes, CaseModes) :
            CaseRel(raw)
    \/ EndPas
    \/ \E raw \in PhraseRels(ALL_COREFS, CorefModes) \cup ExoRels(ALL_COREFS, CorefModes) :
            CorefRel(raw)
    \/ CorefOuter
    \/ CorefInner
    \/ NextBp
    \/ \E d \in DOMAIN pas_tbl \cup {NumPhrases - 1}, relax \in BOOLEAN,
          include_optional \in BOOLEAN :
            Query(d, relax, include_optional)
    \/ \E sid \in Sids \cup {BadSid} : GetItem(sid)
    \/ \E doc_id \in DocIds : ProcessDocument(doc_id)

Spec == Init /\ [][Next]_vars

\* the assembly of the sentences alone, for every input document
AssemblyInit ==
    /\ entities = EmptyFn /\ mentions = EmptyFn /\ pas_tbl = EmptyFn /\ pas = EmptyFn
    /\ bp = 0 /\ pc = "assembling" /\ relax_cases = FALSE /\ nrels = 0
    /\ src = NoneTid /\ tgt = NoneTid /\ exo = "None" /\ uncertain = FALSE
    /\ src_eids = <<>> /\ tgt_eids = <<>> /\ se = NoneEid
    /\ err = "none" /\ retired = {} /\ last_merge = NoMerge
    /\ qres = NoQuery /\ got = NoLookup /\ ne = NotExtracting
    /\ \E input \in Documents :
          asm = [input |-> input, k |-> 0, dtid |-> 0, dmid |-> 0, order |-> <<>>,
                 sid2sentence |-> EmptyFn]

AssemblyNext == AddSentence

AssemblySpec == AssemblyInit /\ [][AssemblyNext]_vars

\* ------------------------------------ Document._analyze_pas (use_pas_tag)
\* the arguments a pyknp pas tag may carry: flag E is an exophor with the eid
\* the tag asks for, the other flags name a phrase of the document
PasTagArgs ==
    [flag : {"E"}, midasi : ALL_EXOPHORS, eid : NoneEid .. MaxEid,
     sid : {NoneSid}, tid : {NoneTid}]
    \cup [flag : {"C"}, midasi : {"None"}, eid : {NoneEid},
          sid : Sids, tid : 0 .. (SentLen - 1)]

\* _analyze_pas lines 98-112: one argument of the pas tag of phrase bp
AnalyzePasArg(case0, arg) ==
    /\ pc = "pas_tag"
    /\ nrels < MaxRels
    /\ nrels' = nrels + 1
    /\ UNCHANGED relax_cases
    /\ LET case == IF relax_cases /\ case0 \in ALL_CASES /\ endswith(case0, "approx")
                   THEN rstrip(case0, "approx") ELSE case0
           r == _create_entity(Tables, arg.midasi, arg.eid)
           arg_bp == _get_bp(arg.sid, arg.tid)
           G1 == _create_mention(Tables, arg_bp)
       IN  IF arg.flag = "E"
           THEN IF ~r.ok THEN Crash("assert_singleton")
                ELSE /\ entities' = r.G.ent
                     /\ mentions' = r.G.men
                     /\ pas' = add_special_argument(pas, case, arg.midasi, r.eid, "")
                     /\ UNCHANGED <<pas_tbl, bp, pc, LoopRest, err, retired, last_merge,
                                    qres, outside>>
           \* _get_bp returns None and _create_mention reads bp.dtid
           ELSE IF arg_bp = NoneTid THEN Crash("AttributeError")
           ELSE /\ entities' = G1.ent
                /\ mentions' = G1.men
                /\ pas' = add_argument(pas, bp, case, arg_bp, "")
                /\ UNCHANGED <<pas_tbl, bp, pc, LoopRest, err, retired, last_merge,
                               qres, outside>>

\* _analyze_pas lines 94-97 and 113-114: keep the Pas, go on to the next phrase
AnalyzePasNext ==
    /\ pc = "pas_tag"
    /\ pas_tbl' = IF DOMAIN pas # {}
                  THEN [d \in DOMAIN pas_tbl \cup {bp} |->
                            IF d = bp THEN pas ELSE pas_tbl[d]]
                  ELSE pas_tbl
    /\ pas' = EmptyFn
    /\ IF bp + 1 < NumPhrases
       THEN bp' = bp + 1 /\ pc' = "pas_tag"
       ELSE bp' = bp /\ pc' = "done"
    /\ UNCHANGED <<entities, mentions, relax_cases, nrels, LoopRest, err, retired,
                   last_merge, qres, outside>>

\* Document.__init__ with use_pas_tag: _analyze_pas in place of _analyze_rel
PasTagInit ==
    /\ entities = EmptyFn /\ mentions = EmptyFn /\ pas_tbl = EmptyFn /\ pas = EmptyFn
    /\ bp = 0 /\ pc = "pas_tag" /\ relax_cases \in BOOLEAN /\ nrels = 0
    /\ src = NoneTid /\ tgt = NoneTid /\ exo = "None" /\ uncertain = FALSE
    /\ src_eids = <<>> /\ tgt_eids = <<>> /\ se = NoneEid
    /\ err = "none" /\ retired = {} /\ last_merge = NoMerge
    /\ qres = NoQuery /\ got = NoLookup /\ asm = NotAssembling
    /\ ne = NotExtracting

\* the case labels of the pas tags
PasTagCases == {<<"ga">>, <<"ga", "approx">>, <<"wo">>}

PasTagNext ==
    \/ \E case \in PasTagCases, arg \in PasTagArgs :
            AnalyzePasArg(case, arg)
    \/ AnalyzePasNext

PasTagSpec == PasTagInit /\ [][PasTagNext]_vars

\* ------------------------------------------- Document._extract_nes, ne.py
\* constants.py NE_CATEGORIES (a sample); a category is a string of one piece
NE_CATEGORIES == {<<"LOCATION">>, <<"DATE">>}
\* surface forms of the morphemes, as strings of characters
Midasis == {<<"a">>, <<"b", "a">>}
\* tag.features['NE']: absent, or the string category:name
NoNE == <<>>
NEFeatures ==
    {NoNE, <<"LOCATION", ":", "a">>, <<"LOCATION", ":", "b", "a">>,
     <<"DATE", ":", "a", "b", "a">>, <<"DATE", ":", "b">>, <<"MISC", ":", "a">>}
\* a tag of the input sentence: the surface forms of its morphemes and its
\* NE feature
NETags ==
    [mrphs : UNION {[1 .. n -> Midasis] : n \in 1 .. MaxMrphs}, NE : NEFeatures]
NESentences == UNION {[1 .. n -> NETags] : n \in 1 .. MaxTags}
\* the dmid counter of Document.__init__ when the sentence is read: the
\* number of morphemes of the sentences before it
DmidOffsets == {0, 3}

\* feature.split(':', maxsplit=1)
SplitNE(f) ==
    LET i == CHOOSE j \in 1 .. Len(f) : f[j] = ":" /\ \A k \in 1 .. j - 1 : f[k] # ":"
    IN  [category |-> SubSeq(f, 1, i - 1), name |-> SubSeq(f, i + 1, Len(f))]

\* the morphemes of the tags 1 .. n of a sentence, each with its mrph_id (its
\* index in the sentence) and its surface form
MrphList(tags, n) ==
    LET flat == Flatten([i \in 1 .. n |-> tags[i].mrphs])
    IN  [j \in 1 .. Len(flat) |-> [mrph_id |-> j - 1, midasi |-> flat[j]]]

\* range(start, stop); NoSpan is None
Range(start, stop) == [start |-> start, stop |-> stop]
NoSpan == Range(-1, -1)

RECURSIVE ScanBack(_, _, _, _, _)
\* lines 402-405: the morphemes before end_mid, from the last to the first
ScanBack(name, mrph_list, end_mid, j, mrph_span) ==
    IF j = 0 THEN NoSpan
    ELSE IF mrph_list[j].midasi \o mrph_span = name
    THEN Range(mrph_list[j].mrph_id, end_mid)
    ELSE ScanBack(name, mrph_list, end_mid, j - 1, mrph_list[j].midasi \o mrph_span)

RECURSIVE FindFrom(_, _, _, _)
\* lines 399-406: the loop over the morphemes of the tag
FindFrom(name, mrph_list, tag, i) ==
    IF i >= Len(tag.mrphs) THEN NoSpan
    ELSE LET end_mid == Len(mrph_list) - i
             r == ScanBack(name, mrph_list, end_mid, end_mid, <<>>)
         IN  IF r # NoSpan THEN r ELSE FindFrom(name, mrph_list, tag, i + 1)

\* _find_mrph_span that only tries the spans ending at the last morpheme of
\* the tag
_find_mrph_span_last_only(name, mrph_list, tag) ==
    ScanBack(name, mrph_list, Len(mrph_list), Len(mrph_list), <<>>)

\* Document._find_mrph_span
_find_mrph_span(name, mrph_list, tag) == FindFrom(name, mrph_list, tag, 0)

\* mrph2dmid of the sentence: mrph_id -> dmid
Mrph2dmid(tags, dmid_offset) ==
    LET sentence == Sentence([sid |-> 1, mrphs |-> [i \in 1 .. Len(tags) |->
                                                       Len(tags[i].mrphs)]],
                             0, dmid_offset)
        dmids == Flatten([i \in 1 .. Len(sentence.bps) |-> sentence.bps[i].dmids])
    IN  [m \in 0 .. Len(dmids) - 1 |-> dmids[m + 1]]

\* a NamedEntity that takes the ids in the sentence for document-wide ids
NamedEntity_sentence_ids(category, name, mid_range, mrph2dmid) ==
    [category |-> category, name |-> name, mid_range |-> mid_range,
     dmid_range |-> mid_range]

\* NamedEntity.__init__
NamedEntity(category, name, mid_range, mrph2dmid) ==
    [category |-> category, name |-> name, mid_range |-> mid_range,
     dmid_range |-> Range(mrph2dmid[mid_range.start],
                          mrph2dmid[mid_range.stop - 1] + 1)]

\* _extract_nes lines 378-391: one turn of the loop over the tags
ExtractNe ==
    /\ ne.t < Len(ne.tags)
    /\ LET tag == ne.tags[ne.t + 1]
           f == SplitNE(tag.NE)
           mrph_list == MrphList(ne.tags, ne.t + 1)
           mrph_span == _find_mrph_span(f.name, mrph_list, tag)
       IN  ne' = [ne EXCEPT
                    !.t = @ + 1,
                    !.named_entities =
                        IF tag.NE = NoNE THEN @
                        ELSE IF f.category \notin NE_CATEGORIES THEN @
                        ELSE IF mrph_span = NoSpan THEN @
                        ELSE Append(@, NamedEntity(f.category, f.name, mrph_span,
                                                   Mrph2dmid(ne.tags, ne.dmid_offset)))]
    /\ UNCHANGED <<entities, mentions, pas_tbl, pas, bp, pc, relax_cases, nrels,
                   LoopRest, err, retired, last_merge, qres, got, asm>>

\* the NE extraction alone, for every sentence and dmid offset
NeInit ==
    /\ entities = EmptyFn /\ mentions = EmptyFn /\ pas_tbl = EmptyFn /\ pas = EmptyFn
    /\ bp = 0 /\ pc = "extract_nes" /\ relax_cases = FALSE /\ nrels = 0
    /\ src = NoneTid /\ tgt = NoneTid /\ exo = "None" /\ uncertain = FALSE
    /\ src_eids = <<>> /\ tgt_eids = <<>> /\ se = NoneEid
    /\ err = "none" /\ retired = {} /\ last_merge = NoMerge
    /\ qres = NoQuery /\ got = NoLookup /\ asm = NotAssembling
    /\ \E tags \in NESentences, dmid_offset \in DmidOffsets :
          ne = [tags |-> tags, dmid_offset |-> dmid_offset, t |-> 0,
                named_entities |-> <<>>]

NeNext == ExtractNe

NeSpec == NeInit /\ [][NeNext]_vars

TypeOK ==
    /\ pc \in {"pas", "coref", "outer", "inner", "done", "crashed"}
    /\ DOMAIN mentions \subseteq Phrases

\* ================================================================ claims

\* C1: bidirectional consistency.  In every reachable state, for every live
\* entity E and every phrase M: M is a certain mention of E iff M has a
\* Mention whose eids holds E.eid, M is an uncertain mention of E iff M has a
\* Mention whose eids_unc holds E.eid, and every eid held by a mention is the
\* key of a live entity.
C1_BidirectionalConsistency ==
    /\ \A k \in DOMAIN entities : \A d \in Phrases :
          /\ d \in entities[k].mentions
                <=> (d \in DOMAIN mentions /\ entities[k].eid \in mentions[d].eids)
          /\ d \in entities[k].mentions_unc
                <=> (d \in DOMAIN mentions /\ entities[k].eid \in mentions[d].eids_unc)
    /\ \A d \in DOMAIN mentions : all_eids(mentions[d]) \subseteq DOMAIN entities

\* C1 witness: the document is built, a merge has deleted an entity, one
\* mention has been promoted or linked as certain to a second phrase's entity
\* and an uncertain link is left
C1_Witness ==
    /\ pc = "done"
    /\ retired # {}
    /\ \E d \in DOMAIN mentions : mentions[d].eids_unc # {}
    /\ \E k \in DOMAIN entities : Cardinality(entities[k].mentions) >= 2

\* the SpecialArguments of one Pas.arguments
SpecialArgs(args) ==
    UNION {{args[c][i] : i \in {j \in 1 .. Len(args[c]) : args[c][j].kind = "exo"}} :
            c \in DOMAIN args}
\* the SpecialArguments of every stored Pas and of the Pas being built
AllSpecialArgs(P, local) == SpecialArgs(local) \cup UNION {SpecialArgs(P[d]) : d \in DOMAIN P}
\* the source entity of the merge call made by a step of the _add_corefs loops
MergeSource == IF pc = "inner" THEN se ELSE Head(src_eids)

\* C2: merge eid rewriting.  Whenever a step deletes an entity, afterwards no
\* SpecialArgument of a stored Pas or of the Pas being built carries the
\* deleted eid, and every SpecialArgument that carried it carries the eid of
\* the surviving source entity of the merge.
C2_MergeRewritesEids ==
    [][\A t \in DOMAIN entities \ DOMAIN entities' :
          /\ \A a \in AllSpecialArgs(pas_tbl', pas') : a.eid # t
          /\ MergeSource \in DOMAIN entities'
          /\ \A d \in DOMAIN pas_tbl : \A c \in DOMAIN pas_tbl[d] :
                \A i \in 1 .. Len(pas_tbl[d][c]) :
                    (pas_tbl[d][c][i].kind = "exo" /\ pas_tbl[d][c][i].eid = t)
                        => pas_tbl'[d][c][i] =
                             [pas_tbl[d][c][i] EXCEPT !.eid = entities'[MergeSource].eid]
      ]_vars

\* C2 witness: two markers were read, the second one a certain coreference
\* link to "author" whose merge deleted the entity that the first one (a case
\* relation to "author") had created; the argument now names the entity of the
\* source mention
C2_Witness ==
    /\ nrels = 2
    /\ last_merge.branch = "absorb"
    /\ \E a \in AllSpecialArgs(pas_tbl, pas) :
          /\ a.exophor = "author"
          /\ a.eid \in DOMAIN entities
          /\ a.eid \notin retired
          /\ entities[a.eid].exophor = "author"
          /\ src \in entities[a.eid].mentions

\* C3 (state part): at most one live entity per non-productive exophor label,
\* and the assertion len(entities) == 1 of _create_entity has not failed
SingletonExophors ==
    /\ \A k1, k2 \in DOMAIN entities :
          (entities[k1].exophor = entities[k2].exophor
             /\ entities[k1].exophor \notin PRODUCTIVE \cup {"None"}) => k1 = k2
    /\ err # "assert_singleton"

\* C3 (step part): a request for a non-productive label that a live entity
\* carries creates no entity, and the argument made from it names that entity
SingletonRequest ==
    /\ \A raw \in ExoRels(RelTypes, CaseModes) :
          (/\ CaseRel(raw)
           /\ Valid(Relaxed(raw, relax_cases))
           /\ Relaxed(raw, relax_cases).atype \in cases
           /\ raw.target \in ALL_EXOPHORS \ PRODUCTIVE
           /\ \E k \in DOMAIN entities : entities[k].exophor = raw.target)
          => /\ entities' = entities
             /\ \A a \in SpecialArgs(pas') :
                   a.exophor = raw.target => entities[a.eid].exophor = raw.target
    /\ (/\ pc = "outer" /\ src_eids # <<>> /\ tgt = NoneTid
        /\ exo \notin PRODUCTIVE
        /\ \E k \in DOMAIN entities : entities[k].exophor = exo)
          => DOMAIN entities' \subseteq DOMAIN entities

\* C3: singleton exophor uniqueness.  In every reachable state at most one
\* live entity carries a given non-productive exophor label (also after a
\* merge in which an exophor-less entity adopts the label), the singleton
\* assertion of entity creation never fails, and a request for such a label
\* while an entity carries it returns that entity and creates nothing.
C3_SingletonExophor == []SingletonExophors /\ [][SingletonRequest]_vars

\* C3 witness: "author" was requested by a case relation and by a coreference
\* link; the one entity that carries the label has adopted it in a merge
C3_Witness ==
    /\ pc = "done"
    /\ \E k \in DOMAIN entities :
          /\ entities[k].exophor = "author"
          /\ entities[k].mentions # {}
          /\ \E a \in AllSpecialArgs(pas_tbl, pas) : a.exophor = "author" /\ a.eid = k

\* ---- the merge call made by the next step of the _add_corefs loops
InnerMerge == pc = "inner" /\ tgt_eids # <<>> /\ Head(tgt_eids) \in DOMAIN entities
ExoMerge ==
    pc = "outer" /\ src_eids # <<>> /\ Head(src_eids) \in DOMAIN entities /\ tgt = NoneTid
MergeCall == InnerMerge \/ ExoMerge
\* the tables the merge starts from, and its target entity
MergeTables == IF pc = "inner" THEN Tables ELSE _create_entity(Tables, exo, NoneEid).G
MergeTarget == IF pc = "inner" THEN Head(tgt_eids) ELSE _create_entity(Tables, exo, NoneEid).eid

AbsorbPre ==
    /\ MergeCall
    /\ ~uncertain
    /\ MergeSource # MergeTarget
    /\ src \in MergeTables.ent[MergeSource].mentions
    /\ tgt # NoneTid => tgt \in MergeTables.ent[MergeTarget].mentions
    /\ ~(/\ MergeTables.ent[MergeSource].exophor # "None"
         /\ MergeTables.ent[MergeTarget].exophor # "None"
         /\ MergeTables.ent[MergeSource].exophor # MergeTables.ent[MergeTarget].exophor)

AbsorbPost ==
    LET S == MergeTables.ent[MergeSource]
        T == MergeTables.ent[MergeTarget]
    IN  /\ MergeTarget \notin DOMAIN entities'
        /\ MergeSource \in DOMAIN entities'
        /\ entities'[MergeSource].eid = S.eid
        /\ entities'[MergeSource].exophor =
               (IF S.exophor = "None" THEN T.exophor ELSE S.exophor)
        /\ S.mentions \subseteq entities'[MergeSource].mentions
        /\ \A d \in T.mentions \cup {src} \cup ({tgt} \ {NoneTid}) :
               /\ d \in entities'[MergeSource].mentions
               /\ S.eid \in mentions'[d].eids
        /\ \A d \in T.mentions_unc \ (S.mentions \cup {src, tgt}) :
               /\ d \in entities'[MergeSource].mentions_unc
               /\ S.eid \in mentions'[d].eids_unc
        /\ \A d \in DOMAIN mentions' : T.eid \notin all_eids(mentions'[d])

\* C4: absorbing merge.  When merge is called with a certain link, the source
\* mention a certain member of the source entity, the target mention (if any)
\* a certain member of the distinct target entity, and the two exophors not
\* both set and different, then the target entity leaves the entity table, the
\* source entity keeps its eid, takes the target's exophor if it had none, and
\* every mention of the target is a mention of the source: certain if it was
\* certain to the target, uncertain if it was uncertain to the target and not
\* certain to the source.
C4_MergeAbsorbs == [][AbsorbPre => AbsorbPost]_vars

\* C4 witness: an absorbing merge has just run in which the source entity took
\* over the target's exophor, or an uncertain mention of the target
C4_Witness ==
    /\ last_merge.branch = "absorb"
    /\ last_merge.adopted \/ last_merge.inherited
    /\ pc \in {"inner", "outer"}

\* C5: uncertain link.  While an uncertain coreference link is processed no
\* entity is deleted, no certain membership is added or removed (so the eid of
\* the entity of A and B does not enter C's certain eids, and A and B stay its
\* certain mentions), and when the loops over the eids end, every entity that
\* has one end of the link as a certain mention has the other end as a mention.
C5_UncertainLink ==
    [][(pc \in {"outer", "inner"} /\ uncertain) =>
          /\ DOMAIN entities \subseteq DOMAIN entities'
          /\ \A k \in DOMAIN entities :
                /\ entities'[k].mentions = entities[k].mentions
                /\ entities[k].mentions_unc \subseteq entities'[k].mentions_unc
          /\ \A d \in DOMAIN mentions : mentions'[d].eids = mentions[d].eids
          /\ (pc = "outer" /\ src_eids = <<>> /\ tgt # NoneTid) =>
                \A k \in DOMAIN entities :
                    /\ src \in entities[k].mentions => tgt \in all_mentions(entities[k])
                    /\ tgt \in entities[k].mentions => src \in all_mentions(entities[k])
      ]_vars

\* C5 witness: the loops of an uncertain link between B and C have ended; an
\* entity has A and B as certain mentions, C as an uncertain one, and its eid
\* is not among C's certain eids
C5_Witness ==
    /\ pc = "outer" /\ src_eids = <<>> /\ uncertain /\ tgt # NoneTid
    /\ last_merge.branch = "uncertain"
    /\ \E k \in DOMAIN entities : \E b, c \in {src, tgt} :
          /\ b # c
          /\ b \in entities[k].mentions
          /\ Cardinality(entities[k].mentions) >= 2
          /\ c \in entities[k].mentions_unc
          /\ k \notin mentions[c].eids

\* C6: same-entity merge.  When merge is called with source entity = target
\* entity: if the link is certain and exactly one of the two edges (source
\* mention - entity, target mention - entity) is uncertain, that edge becomes
\* certain and nothing else changes; otherwise nothing changes at all.  The
\* entity table keeps the same entities in every case.
C6_SameEntityMerge ==
    [][(MergeCall /\ MergeSource = MergeTarget) =>
          LET s == MergeSource
              us == entities[s].eid \notin mentions[src].eids
              ut == tgt # NoneTid /\ entities[s].eid \notin mentions[tgt].eids
              x == IF ut THEN tgt ELSE src
          IN  /\ DOMAIN entities' = DOMAIN entities
              /\ IF ~uncertain /\ us # ut
                 THEN /\ entities' = [entities EXCEPT ![s].mentions = @ \cup {x},
                                                      ![s].mentions_unc = @ \ {x}]
                      /\ mentions' = [mentions EXCEPT ![x].eids = @ \cup {entities[s].eid},
                                                      ![x].eids_unc = @ \ {entities[s].eid}]
                 ELSE entities' = entities /\ mentions' = mentions
      ]_vars

\* C6 witness: a same-entity merge has just promoted the uncertain edge of the
\* target mention; both mentions are certain members and nothing was deleted
\* by it
C6_Witness ==
    /\ last_merge.branch = "promote_target"
    /\ pc = "inner"
    /\ {src, tgt} \subseteq entities[se].mentions

\* C7: retired eids.  No step gives a new entity the eid of an entity that a
\* merge has deleted.
C7_EidNeverReused ==
    [][(DOMAIN entities' \ DOMAIN entities) \cap retired = {}]_vars

\* ---- argument lists
SameReferent(a, b) ==
    \/ a.kind = "arg" /\ b.kind = "arg" /\ a.dtid = b.dtid
    \/ a.kind = "exo" /\ b.kind = "exo" /\ a.exophor = b.exophor
NoDuplicate(args) ==
    \A c \in DOMAIN args : \A i, j \in 1 .. Len(args[c]) :
        i # j => ~SameReferent(args[c][i], args[c][j])
\* old is a prefix of new, as far as the referents go
ReferentPrefix(old, new) ==
    /\ Len(old) <= Len(new)
    /\ \A i \in 1 .. Len(old) : SameReferent(old[i], new[i])

\* C8 (state part): no role list of a stored Pas, of the Pas being built or of
\* a query result holds two arguments for one phrase or for one exophor label
NoDuplicateArguments ==
    /\ NoDuplicate(pas)
    /\ \A d \in DOMAIN pas_tbl : NoDuplicate(pas_tbl[d])
    /\ NoDuplicate(qres.result)

\* C8 (step part): arguments are appended, never reordered; a query result
\* starts with the recorded arguments in their order
DiscoveryOrder ==
    /\ (pc = "pas" /\ pc' = "pas") =>
          \A c \in DOMAIN pas : /\ c \in DOMAIN pas'
                                /\ ReferentPrefix(pas[c], pas'[c])
                                /\ Len(pas'[c]) <= Len(pas[c]) + 1
    /\ \A d \in DOMAIN pas_tbl :
          /\ d \in DOMAIN pas_tbl'
          /\ DOMAIN pas_tbl'[d] = DOMAIN pas_tbl[d]
          /\ \A c \in DOMAIN pas_tbl[d] :
                /\ Len(pas_tbl'[d][c]) = Len(pas_tbl[d][c])
                /\ ReferentPrefix(pas_tbl[d][c], pas_tbl'[d][c])
    /\ (qres'.called /\ ~qres.called /\ qres'.predicate \in DOMAIN pas_tbl) =>
          \A c \in DOMAIN pas_tbl[qres'.predicate] :
              /\ c \in DOMAIN qres'.result
              /\ ReferentPrefix(
                    IF qres'.include_optional THEN pas_tbl[qres'.predicate][c]
                    ELSE SelectSeq(pas_tbl[qres'.predicate][c], NotOptional),
                    qres'.result[c])

\* C8: no duplicate arguments.  After any sequence of add_argument and
\* add_special_argument calls, in extraction and in relaxed queries, a role
\* list holds no two Textual Arguments with the same dtid and no two Special
\* Arguments with the same exophor label, and the arguments stand in the
\* order of their discovery.
C8_NoDuplicateArguments == []NoDuplicateArguments /\ [][DiscoveryOrder]_vars

\* C8 witness: a relaxed query has added a coreferent mention (mode AND)
\* behind a recorded argument
C8_Witness ==
    /\ qres.called /\ qres.relax
    /\ \E c \in DOMAIN qres.result :
          /\ Len(qres.result[c]) >= 2
          /\ qres.result[c][1].mode # "AND"
          /\ qres.result[c][2].mode = "AND"

\* C9: mention uniqueness.  The mention table never loses a mention, and a
\* request for the mention of a phrase that has one - as an argument, as the
\* source of a coreference link or as its target - leaves the mention table
\* and the entity table unchanged.
C9_MentionUnique ==
    [][/\ DOMAIN mentions \subseteq DOMAIN mentions'
       /\ \A raw \in PhraseRels(RelTypes, CaseModes) :
             (/\ CaseRel(raw)
              /\ Valid(Relaxed(raw, relax_cases))
              /\ Relaxed(raw, relax_cases).atype \in cases
              /\ _get_bp(raw.sid, raw.tid) \in DOMAIN mentions)
             => (entities' = entities /\ mentions' = mentions)
       /\ (pc = "coref" /\ bp \in DOMAIN mentions)
             => (entities' = entities /\ mentions' = mentions)
       /\ (pc = "outer" /\ pc' = "inner" /\ tgt \in DOMAIN mentions)
             => (entities' = entities /\ mentions' = mentions)
      ]_vars

\* C9 witness: a phrase that is an argument of a stored Pas is now the target
\* of a coreference link (before any merge): there are still exactly the two
\* mentions of the link and their two entities
C9_Witness ==
    /\ pc = "inner"
    /\ last_merge.branch = "none"
    /\ retired = {}
    /\ \E d \in DOMAIN pas_tbl : \E c \in DOMAIN pas_tbl[d] :
          \E i \in 1 .. Len(pas_tbl[d][c]) : pas_tbl[d][c][i].dtid = tgt
    /\ DOMAIN mentions = {src, tgt}
    /\ Cardinality(DOMAIN entities) = 2

\* C10: a stored Pas has at least one argument in some role.
C10_PasHasArgument ==
    \A d \in DOMAIN pas_tbl :
        \E c \in DOMAIN pas_tbl[d] : Len(pas_tbl[d][c]) > 0

\* ---- the 'no referent' marker
\* the step reads a 'no referent' marker for a role that has arguments
NashiStep(raw) ==
    /\ raw.target = "nashi"
    /\ CaseRel(raw)
    /\ Valid(Relaxed(raw, relax_cases))
    /\ Relaxed(raw, relax_cases).atype \in cases
    /\ Len(Get(pas, Relaxed(raw, relax_cases).atype)) > 0

NashiEffect(case) ==
    /\ DOMAIN pas' = DOMAIN pas
    /\ \A c \in DOMAIN pas \ {case} : pas'[c] = pas[c]
    /\ Len(pas'[case]) = Len(pas[case])
    /\ \A i \in 1 .. Len(pas[case]) :
          pas'[case][i] = [pas[case][i] EXCEPT !.optional = TRUE]
    /\ entities' = entities /\ mentions' = mentions /\ pas_tbl' = pas_tbl

\* a step of the PAS pass: an argument appended by it is not optional, and a
\* flag of a role changes only when the whole role is marked
LaterArguments ==
    (pc = "pas" /\ pc' = "pas") =>
        \A c \in DOMAIN pas' :
            /\ \A i \in 1 .. Len(pas'[c]) :
                  i > Len(Get(pas, c)) => ~pas'[c][i].optional
            /\ (\E i \in 1 .. Len(Get(pas, c)) :
                    i <= Len(pas'[c]) /\ pas'[c][i].optional # pas[c][i].optional)
               => (/\ Len(pas'[c]) = Len(pas[c])
                   /\ \A i \in 1 .. Len(pas'[c]) : pas'[c][i].optional)

\* C11: the 'no referent' marker.  A 'no referent' relation for role C on a
\* predicate whose role C has arguments sets the optional flag of exactly the
\* arguments recorded under C so far, adds no argument and changes nothing
\* under other roles; an argument recorded later is not optional.
C11_NashiMarksOptional ==
    [][/\ \A raw \in ExoRels(RelTypes, CaseModes) :
             NashiStep(raw) => NashiEffect(Relaxed(raw, relax_cases).atype)
       /\ LaterArguments]_vars

\* C11 witness: the Pas under construction has a role whose recorded
\* arguments have all been marked optional by a marker
C11_Witness ==
    /\ pc = "pas"
    /\ \E c \in DOMAIN pas :
          /\ Len(pas[c]) >= 1
          /\ \A i \in 1 .. Len(pas[c]) : pas[c][i].optional

AllPas ==
    [d \in DOMAIN pas_tbl \cup (IF pc = "pas" THEN {bp} ELSE {}) |->
        IF pc = "pas" /\ d = bp THEN pas ELSE pas_tbl[d]]
\* the places <<predicate, role, index>> that hold a SpecialArgument
SpecialSlots ==
    {x \in UNION {UNION {{<<d, c, i>> : i \in 1 .. Len(AllPas[d][c])} :
                         c \in DOMAIN AllPas[d]} : d \in DOMAIN AllPas} :
        AllPas[x[1]][x[2]][x[3]].kind = "exo"}
SlotArg(x) == AllPas[x[1]][x[2]][x[3]]

\* C13 (state part): two arguments with the same productive label have
\* different eids, two with the same non-productive label have the same eid
ProductiveEids ==
    \A x, y \in SpecialSlots :
        (x # y /\ SlotArg(x).exophor = SlotArg(y).exophor) =>
            IF SlotArg(x).exophor \in PRODUCTIVE
            THEN SlotArg(x).eid # SlotArg(y).eid
            ELSE SlotArg(x).eid = SlotArg(y).eid

\* exactly one entity, with a key no live entity has, joins the table
OneNewEntity(exophor) ==
    \E k \in DOMAIN entities' \ DOMAIN entities :
        /\ DOMAIN entities' = DOMAIN entities \cup {k}
        /\ entities'[k].eid = k
        /\ entities'[k].exophor = exophor
        /\ \A j \in DOMAIN entities : entities[j].eid # k

HasLive(exophor) == \E k \in DOMAIN entities : entities[k].exophor = exophor

\* C13 (step part): the entity requests of the PAS pass and of _add_corefs
ProductiveRequest ==
    /\ \A raw \in ExoRels(RelTypes, CaseModes) :
          (/\ CaseRel(raw)
           /\ Valid(Relaxed(raw, relax_cases))
           /\ Relaxed(raw, relax_cases).atype \in cases
           /\ raw.target \in ALL_EXOPHORS)
          => IF raw.target \in PRODUCTIVE THEN OneNewEntity(raw.target)
             ELSE IF HasLive(raw.target) THEN entities' = entities
             ELSE OneNewEntity(raw.target)
    /\ (/\ pc = "outer" /\ src_eids # <<>> /\ tgt = NoneTid
        /\ Head(src_eids) \in DOMAIN entities
        /\ err' = "none")
       => IF exo \in PRODUCTIVE
          THEN /\ last_merge'.branch \notin {"none", "same"}
               /\ IF last_merge'.branch = "absorb"
                  THEN DOMAIN entities' = DOMAIN entities
                  ELSE OneNewEntity(exo)
          ELSE HasLive(exo) => DOMAIN entities' \subseteq DOMAIN entities

\* C13: productive exophors.  Every request for an entity with a productive
\* label creates a new entity whose eid no live entity has, also when live
\* entities with that label exist; a request for a non-productive label that
\* a live entity has creates none.  Two arguments with the same productive
\* label have different eids, two with the same non-productive label the
\* same eid.
C13_ProductiveExophor == []ProductiveEids /\ [][ProductiveRequest]_vars

\* C13 witness: the built document has two arguments with the same productive
\* label, and two live entities with that label
C13_Witness ==
    /\ pc = "done"
    /\ \E x, y \in SpecialSlots :
          /\ x # y
          /\ SlotArg(x).exophor \in PRODUCTIVE
          /\ SlotArg(x).exophor = SlotArg(y).exophor
          /\ SlotArg(x).eid # SlotArg(y).eid
          /\ {SlotArg(x).eid, SlotArg(y).eid} \subseteq DOMAIN entities

\* ---- dependency-relation kinds
\* the places <<predicate, role, index>> of a table of role lists that hold
\* a textual Argument
TextualSlots(T) ==
    {x \in UNION {UNION {{<<d, c, i>> : i \in 1 .. Len(T[d][c])} :
                         c \in DOMAIN T[d]} : d \in DOMAIN T} :
        T[x[1]][x[2]][x[3]].kind = "arg"}

\* the rule order for predicate d and argument a
DepKindRule(d, a, kind) ==
    /\ IF ParentOf(a) = d THEN kind \in {"overt", "dep"}
       ELSE IF ParentOf(d) = a THEN kind = "dep"
       ELSE IF SidOf(a) = SidOf(d) THEN kind = "intra"
       ELSE kind = "inter"
    /\ SidOf(a) # SidOf(d) => kind = "inter"
    /\ kind = "overt" => ParentOf(a) = d

\* the last query result as a table with the one predicate queried
QueryPas ==
    IF qres.called /\ qres.predicate \in DOMAIN pas_tbl
    THEN [d \in {qres.predicate} |-> qres.result] ELSE EmptyFn

\* C14: dependency-relation kind.  For every textual Argument recorded for a
\* predicate or added by a relaxed query: if the argument is a syntactic
\* child of the predicate its kind is overt or dep; else if it is the
\* predicate's syntactic parent, dep; else if both are in one sentence,
\* intra; else inter.  An argument in another sentence is inter, and overt
\* is held only by children of the predicate.
C14_DepKind ==
    /\ \A x \in TextualSlots(AllPas) :
          DepKindRule(x[1], SlotArg(x).dtid, SlotArg(x).dep_type)
    /\ \A x \in TextualSlots(QueryPas) :
          DepKindRule(x[1], QueryPas[x[1]][x[2]][x[3]].dtid,
                      QueryPas[x[1]][x[2]][x[3]].dep_type)

\* C14 witness: a stored Pas holds an argument that is the predicate's parent
\* and one in another sentence
C14_Witness ==
    \E x, y \in TextualSlots(AllPas) :
        /\ x[1] = y[1]
        /\ ParentOf(x[1]) = SlotArg(x).dtid /\ SlotArg(x).dep_type = "dep"
        /\ SidOf(SlotArg(y).dtid) # SidOf(y[1]) /\ SlotArg(y).dep_type = "inter"

\* ---- tri-state flags
FlagOK(e, flag, feature) ==
    /\ flag = "None" <=> all_mentions(e) = {}
    /\ all_mentions(e) # {} =>
          (flag = "True" <=> \A d \in all_mentions(e) : feature \in Features(d))

FlagsState ==
    \A k \in DOMAIN entities :
        /\ FlagOK(entities[k], entities[k].taigen, <<"taigen">>)
        /\ FlagOK(entities[k], entities[k].yougen, <<"yougen">>)

\* a live entity keeps every mention linked to it, and a flag never goes
\* back from false to true or from set to unset
FlagsStep ==
    \A k \in DOMAIN entities \cap DOMAIN entities' :
        /\ all_mentions(entities[k]) \subseteq all_mentions(entities'[k])
        /\ entities[k].taigen = "False" => entities'[k].taigen = "False"
        /\ entities[k].yougen = "False" => entities'[k].yougen = "False"
        /\ entities[k].taigen # "None" => entities'[k].taigen # "None"
        /\ entities[k].yougen # "None" => entities'[k].yougen # "None"

\* C15: tri-state flags.  At every point of the construction and for every
\* live entity, the nominal and the predicative flag are unset iff no mention
\* has been linked to the entity, and otherwise true iff every mention linked
\* to it, certain or uncertain or inherited through a merge, carries the
\* feature; a flag that is false never becomes true again.
C15_TriStateFlags == []FlagsState /\ [][FlagsStep]_vars

\* C15 witness: an entity with a certain and an uncertain mention that
\* disagree (both flags false) next to an exophor entity without mentions
\* (both flags unset)
C15_Witness ==
    /\ \E k \in DOMAIN entities :
          /\ entities[k].mentions # {} /\ entities[k].mentions_unc # {}
          /\ entities[k].taigen = "False" /\ entities[k].yougen = "False"
    /\ \E k \in DOMAIN entities :
          /\ all_mentions(entities[k]) = {}
          /\ entities[k].taigen = "None" /\ entities[k].yougen = "None"

\* ---- lookups of unknown ids
UnknownLookup ==
    /\ got.called
    /\ \/ got.op = "getitem" /\ got.sid \notin Sids
       \/ got.op = "process_document" /\ got.doc_id \notin did2knps \cup did2pkls

\* C16 as stated: a request for a sentence id that is not in the document or
\* for a document id unknown to the reader is a hard failure: an exception
\* reaches the caller, no value is returned.
C16_UnknownIdFails == UnknownLookup => got.outcome.raised

\* C16 amended: a request for a sentence id that is not in the document or
\* for a document id unknown to the reader logs an error and returns None,
\* without an exception; a request for a known id returns the sentence or
\* the document and logs nothing.
C16_UnknownIdReturnsNone ==
    got.called =>
        /\ ~got.outcome.raised
        /\ IF UnknownLookup
           THEN /\ got.outcome.sentence = NoneSid
                /\ got.outcome.document = "None"
                /\ got.outcome.logged = "error"
           ELSE /\ got.outcome.logged = "none"
                /\ got.op = "getitem" => got.outcome.sentence = got.sid
                /\ got.op = "process_document" => got.outcome.document # "None"

\* C16 witness: Document[sid] has been asked for a sentence id that is not in
\* the document and has returned None
C16_Witness ==
    /\ got.called /\ got.op = "getitem" /\ got.sid \notin Sids
    /\ got.outcome.sentence = NoneSid /\ ~got.outcome.raised

\* C17: no malformed marker aborts the construction.  Whatever markers the
\* document carries (unknown relation type, target sentence without a phrase
\* index, nonexistent target sentence, phrase index out of range, unknown
\* exophor, coreference with itself), no exception ends the construction.
C17_ConstructionNeverAborts == pc # "crashed"

\* ---- document-wide ids
\* the dtids and the dmids of the document, in document order
DocDtids(a) ==
    Flatten([i \in 1 .. Len(Sentences(a)) |->
                [t \in 1 .. Len(Sentences(a)[i].bps) |-> Sentences(a)[i].bps[t].dtid]])
DocDmids(a) ==
    Flatten([i \in 1 .. Len(Sentences(a)) |->
                Flatten([t \in 1 .. Len(Sentences(a)[i].bps) |->
                            Sentences(a)[i].bps[t].dmids])])
Counting(q) == \A i \in 1 .. Len(q) : q[i] = i - 1
DistinctSids(a) ==
    \A i, j \in 1 .. a.k : i # j => a.input[i].sid # a.input[j].sid

\* C18: document-wide ids.  When the sentence ids read so far are pairwise
\* distinct, the dtids of the phrases in document order are 0, 1, 2, ...
\* without gaps, and so are the dmids of the morphemes; the phrase with
\* index t of sentence k has the dtid (phrases of the sentences before k) + t.
C18_GaplessIds ==
    DistinctSids(asm) =>
        /\ Len(Sentences(asm)) = asm.k
        /\ Counting(DocDtids(asm))
        /\ Counting(DocDmids(asm))
        /\ Len(DocDtids(asm)) = asm.dtid /\ Len(DocDmids(asm)) = asm.dmid
        /\ \A i \in 1 .. asm.k : \A t \in 1 .. Len(Sentences(asm)[i].bps) :
              /\ Sentences(asm)[i].bps[t].tid = t - 1
              /\ Sentences(asm)[i].bps[t].dtid =
                    SumSeq([j \in 1 .. i - 1 |-> Len(asm.input[j].mrphs)]) + t - 1

\* C18 witness: a document of three sentences with distinct ids has been
\* assembled, the last sentence with several phrases
C18_Witness ==
    /\ asm.k = 3 /\ Len(asm.input) = 3
    /\ DistinctSids(asm)
    /\ Len(asm.input[1].mrphs) > 1 /\ Len(asm.input[3].mrphs) > 2

\* ---- the relaxed query
Recorded(c) == pas_tbl[qres.predicate][c]
\* the recorded arguments the query starts from
QueryBase(c) ==
    IF qres.include_optional THEN Recorded(c) ELSE SelectSeq(Recorded(c), NotOptional)
EntitiesOf(a) ==
    IF a.kind = "exo" THEN {a.eid}
    ELSE IF a.dtid \in DOMAIN mentions THEN all_eids(mentions[a.dtid]) ELSE {}
\* every other mention of every entity a recorded argument of role c is linked to
ExpectedMentions(c) ==
    UNION {UNION {all_mentions(entities[k]) \ (IF Recorded(c)[i].kind = "arg"
                                                THEN {Recorded(c)[i].dtid} ELSE {}) :
                    k \in EntitiesOf(Recorded(c)[i])} : i \in 1 .. Len(Recorded(c))}
\* the exophor of each such entity that has one and differs from the
\* argument's own label
ExpectedLabels(c) ==
    UNION {{entities[k].exophor : k \in EntitiesOf(Recorded(c)[i])}
              \ {"None", Recorded(c)[i].exophor} : i \in 1 .. Len(Recorded(c))}
DtidsOf(list, from) ==
    {list[i].dtid : i \in {j \in from .. Len(list) : list[j].kind = "arg"}}
LabelsOf(list, from) ==
    {list[i].exophor : i \in {j \in from .. Len(list) : list[j].kind = "exo"}}

RelaxedRole(c) ==
    LET res == qres.result[c]
        base == QueryBase(c)
    IN  /\ Len(res) >= Len(base)
        /\ \A i \in 1 .. Len(base) : res[i] = base[i]
        /\ \A i \in Len(base) + 1 .. Len(res) : res[i].mode = "AND"
        /\ DtidsOf(res, Len(base) + 1) = ExpectedMentions(c) \ DtidsOf(base, 1)
        /\ LabelsOf(res, Len(base) + 1) = ExpectedLabels(c) \ LabelsOf(base, 1)
        /\ \A i, j \in 1 .. Len(res) : i # j => ~SameReferent(res[i], res[j])

\* C19: the relaxed query.  A relaxed get_arguments returns, for each role,
\* the recorded arguments with their mode, followed by every other mention
\* of every entity a recorded argument of the role is linked to (certainly or
\* not) and by the exophor of each such entity that has one and differs from
\* the argument's own label; every added argument has mode AND and none is
\* added twice.
C19_RelaxedQuery ==
    (qres.called /\ qres.relax /\ qres.predicate \in DOMAIN pas_tbl) =>
        \A c \in DOMAIN pas_tbl[qres.predicate] : RelaxedRole(c)

\* C20: the plain query.  A get_arguments call without relax returns, for
\* each role, exactly the recorded arguments whose optional flag is false, in
\* the order of their discovery, when include_optional is false, and all
\* recorded arguments when it is true.
C20_PlainQuery ==
    (qres.called /\ ~qres.relax /\ qres.predicate \in DOMAIN pas_tbl) =>
        /\ DOMAIN pas_tbl[qres.predicate] \subseteq DOMAIN qres.result
        /\ \A c \in DOMAIN qres.result :
              qres.result[c] =
                  IF qres.include_optional THEN Get(pas_tbl[qres.predicate], c)
                  ELSE SelectSeq(Get(pas_tbl[qres.predicate], c), NotOptional)

\* C20 witness: a plain query without optional arguments has left out the
\* optional arguments of a role
C20_Witness ==
    /\ qres.called /\ ~qres.relax /\ ~qres.include_optional
    /\ qres.predicate \in DOMAIN pas_tbl
    /\ \E c \in DOMAIN pas_tbl[qres.predicate] :
          /\ \E i \in 1 .. Len(Recorded(c)) : Recorded(c)[i].optional
          /\ Len(qres.result[c]) < Len(Recorded(c))

\* ---- eid allocation
\* the eid a new entity gets when `req` is asked for (NoneEid: none given)
AllocatedEid(req) ==
    LET eids == {entities[k].eid : k \in DOMAIN entities}
    IN  IF req >= 0 /\ req \notin eids THEN req
        ELSE IF eids = {} THEN 0 ELSE Max(eids) + 1

\* exactly one entity joins the table, under the eid allocated for `req`
CreatedAs(req, exophor) ==
    /\ DOMAIN entities' = DOMAIN entities \cup {AllocatedEid(req)}
    /\ AllocatedEid(req) \notin DOMAIN entities
    /\ entities'[AllocatedEid(req)].eid = AllocatedEid(req)
    /\ entities'[AllocatedEid(req)].exophor = exophor

\* C22 (state part): every entity is stored under its own eid
KeysAreEids == \A k \in DOMAIN entities : entities[k].eid = k

\* C22 (step part): a creation replaces no live entity, and the eid of the
\* new entity follows the request
CreationStep ==
    /\ \A k \in DOMAIN entities :
          /\ k \in DOMAIN entities'
          /\ entities'[k].eid = entities[k].eid
          /\ entities'[k].exophor = entities[k].exophor
          /\ entities'[k].mentions = entities[k].mentions
    /\ \A k \in DOMAIN entities' \ DOMAIN entities :
          \A j \in DOMAIN entities : entities[j].eid # entities'[k].eid
    /\ \A case \in PasTagCases, arg \in PasTagArgs :
          (AnalyzePasArg(case, arg) /\ err' = "none") =>
              IF arg.flag = "E"
              THEN IF arg.midasi \notin PRODUCTIVE /\ HasLive(arg.midasi)
                   THEN entities' = entities
                   ELSE CreatedAs(arg.eid, arg.midasi)
              ELSE IF _get_bp(arg.sid, arg.tid) \in DOMAIN mentions
                   THEN entities' = entities
                   ELSE CreatedAs(NoneEid, "None")

\* C22: eid allocation.  A new entity gets the requested eid when one is
\* given, is not negative and is not the eid of a live entity; otherwise it
\* gets max(live eids) + 1, or 0 when no entity is live.  The new eid differs
\* from the eid of every live entity, no live entity is replaced, and every
\* entity is stored under its own eid.
C22_EidAllocation == []KeysAreEids /\ [][CreationStep]_vars

\* C22 witness: the first entity was created under the requested eid MaxEid
\* (the eids below it are free), the second one under max + 1
C22_Witness ==
    /\ pc = "pas_tag"
    /\ DOMAIN entities = {MaxEid, MaxEid + 1}
    /\ \A k \in DOMAIN entities : entities[k].eid = k

\* ---- certainty of the links
\* C23 (state part): no mention is a certain and an uncertain member of one
\* entity
CertainOrUncertain ==
    /\ \A k \in DOMAIN entities : entities[k].mentions \cap entities[k].mentions_unc = {}
    /\ \A d \in DOMAIN mentions : mentions[d].eids \cap mentions[d].eids_unc = {}

\* a certain member of a live entity stays one, of this entity or of the
\* source entity of the merge that deletes it
NeverDowngraded ==
    \A k \in DOMAIN entities : \A d \in entities[k].mentions :
        IF k \in DOMAIN entities'
        THEN d \in entities'[k].mentions /\ entities'[k].eid \in mentions'[d].eids
        ELSE /\ MergeCall
             /\ MergeSource \in DOMAIN entities'
             /\ d \in entities'[MergeSource].mentions
             /\ entities'[MergeSource].eid \in mentions'[d].eids

\* the two add_mention calls of a merge over distinct entities s and t:
\* mention tm into s with certainty ~to_s_unc, mention sm into t with ~to_t_unc
CrossLinks ==
    (MergeCall /\ MergeSource # MergeTarget /\ err' = "none") =>
        LET G == MergeTables
            s == MergeSource
            t == MergeTarget
            to_s_unc == uncertain \/ G.ent[s].eid \notin G.men[src].eids
            to_t_unc == uncertain \/ (tgt # NoneTid /\ G.ent[t].eid \notin G.men[tgt].eids)
            t2 == IF t \in DOMAIN entities' THEN t ELSE s
        IN  /\ (tgt # NoneTid /\ to_s_unc /\ tgt \in all_mentions(G.ent[s]))
                  => entities'[s] = G.ent[s]
            /\ (to_t_unc /\ src \in all_mentions(G.ent[t]))
                  => (t \in DOMAIN entities' /\ entities'[t] = G.ent[t])
            /\ (tgt # NoneTid /\ ~to_s_unc /\ tgt \in G.ent[s].mentions_unc)
                  => /\ tgt \in entities'[s].mentions \ entities'[s].mentions_unc
                     /\ G.ent[s].eid \in mentions'[tgt].eids \ mentions'[tgt].eids_unc
            /\ (~to_t_unc /\ src \in G.ent[t].mentions_unc)
                  => /\ src \in entities'[t2].mentions \ entities'[t2].mentions_unc
                     /\ entities'[t2].eid \in mentions'[src].eids \ mentions'[src].eids_unc

\* C23: certainty is never downgraded.  A mention that is a certain member
\* of an entity stays a certain member of it, or of the entity that absorbs
\* it, in every later step; an uncertain link for a mention that the entity
\* already has (certain or uncertain) changes nothing of the entity, and a
\* certain link for a mention the entity has as uncertain moves it from the
\* uncertain set to the certain set.
C23_CertaintyNeverDowngraded ==
    []CertainOrUncertain /\ [][NeverDowngraded /\ CrossLinks]_vars

\* C23 witness: while a certain link is processed, a merge over two distinct
\* entities has asked for an uncertain link of the target mention to the
\* source entity, of which it is a certain member; it still is one
C23_Witness ==
    /\ pc = "inner"
    /\ ~uncertain
    /\ last_merge.branch = "uncertain"
    /\ se \in DOMAIN entities
    /\ tgt \in entities[se].mentions
    /\ src \in entities[se].mentions_unc

\* ---- the cross links of a merge
\* a merge call over two distinct entities that returns
DistinctMerge == MergeCall /\ MergeSource # MergeTarget /\ err' = "none"
\* the certainty of the three edges before the call
SourceEdgeUncertain ==
    MergeTables.ent[MergeSource].eid \notin MergeTables.men[src].eids
TargetEdgeUncertain ==
    tgt # NoneTid /\ MergeTables.ent[MergeTarget].eid \notin MergeTables.men[tgt].eids
\* the mention is not linked to the other side's entity before the call
TargetUnlinked == tgt # NoneTid /\ tgt \notin all_mentions(MergeTables.ent[MergeSource])
SourceUnlinked == src \notin all_mentions(MergeTables.ent[MergeTarget])
\* the link of mention d to the entity stored under k after the step; a
\* deleted target entity has handed its mentions to the source entity
LinkedAs(d, k, unc) ==
    LET k2 == IF k \in DOMAIN entities' THEN k ELSE MergeSource
    IN  IF unc THEN d \in entities'[k2].mentions_unc ELSE d \in entities'[k2].mentions

\* C24 as stated: in a merge over distinct entities a mention not yet linked
\* to the other side's entity is linked to it as certain only if the new
\* link, the source edge and the target edge are all certain; if one of the
\* three is uncertain, both new cross links are uncertain.
C24_AnyUncertainMakesBothUncertain ==
    [][DistinctMerge =>
          LET any == uncertain \/ SourceEdgeUncertain \/ TargetEdgeUncertain
          IN  /\ TargetUnlinked => LinkedAs(tgt, MergeSource, any)
              /\ SourceUnlinked => LinkedAs(src, MergeTarget, any)
      ]_vars

\* C24 amended: a target mention not yet linked to the source entity is
\* linked to it as certain iff the new link and the source mention's edge to
\* the source entity are certain; the source mention not yet linked to the
\* target entity is linked to it as certain iff the new link and the target
\* mention's edge to the target entity are certain.  The edge on the
\* mention's own side does not count.
C24_CrossLinkCertainty ==
    [][DistinctMerge =>
          /\ TargetUnlinked =>
                LinkedAs(tgt, MergeSource, uncertain \/ SourceEdgeUncertain)
          /\ SourceUnlinked =>
                LinkedAs(src, MergeTarget, uncertain \/ TargetEdgeUncertain)
      ]_vars

\* C24 witness: a certain link whose target mention is an uncertain member of
\* the target entity: the merge has made the target mention a certain member
\* of the source entity and the source mention an uncertain member of the
\* target entity
C24_Witness ==
    /\ pc = "inner"
    /\ ~uncertain
    /\ retired = {}
    /\ last_merge.branch = "uncertain"
    /\ se \in DOMAIN entities
    /\ {src, tgt} \subseteq entities[se].mentions
    /\ \E t \in DOMAIN entities \ {se} : {src, tgt} \subseteq entities[t].mentions_unc

\* the tables differ from those before the merge call only by the links of
\* the target mention to the source entity and of the source mention to the
\* target entity
OnlyCrossLinks ==
    LET G == MergeTables
        s == MergeSource
        t == MergeTarget
    IN  /\ DOMAIN entities' = DOMAIN G.ent
        /\ DOMAIN mentions' = DOMAIN G.men
        /\ \A k \in DOMAIN G.ent \ {s, t} : entities'[k] = G.ent[k]
        /\ \A d \in DOMAIN G.men \ {src, tgt} : mentions'[d] = G.men[d]
        /\ all_mentions(entities'[s]) = all_mentions(G.ent[s]) \cup ({tgt} \ {NoneTid})
        /\ all_mentions(entities'[t]) = all_mentions(G.ent[t]) \cup {src}
        /\ \A k \in {s, t} :
              /\ G.ent[k].mentions \subseteq entities'[k].mentions
              /\ all_mentions(entities'[k]) \ all_mentions(G.ent[k])
                    \subseteq entities'[k].mentions_unc \cup entities'[k].mentions
              /\ \A d \in all_mentions(G.ent[k]) \ {src, tgt} :
                    d \in entities'[k].mentions <=> d \in G.ent[k].mentions

\* C25: uncertain merge.  In a merge over distinct entities, if the new link
\* or the source mention's edge to the source entity or the target mention's
\* edge to the target entity is uncertain, no entity is deleted, no entity's
\* exophor or eid changes, no SpecialArgument changes, and the tables change
\* only by the two cross links.
C25_UncertainMergeKeepsEntities ==
    [][(DistinctMerge /\ (uncertain \/ SourceEdgeUncertain \/ TargetEdgeUncertain)) =>
          /\ DOMAIN entities \subseteq DOMAIN entities'
          /\ retired' = retired
          /\ \A k \in DOMAIN MergeTables.ent :
                /\ k \in DOMAIN entities'
                /\ entities'[k].exophor = MergeTables.ent[k].exophor
                /\ entities'[k].eid = MergeTables.ent[k].eid
          /\ pas_tbl' = pas_tbl /\ pas' = pas
          /\ OnlyCrossLinks
      ]_vars

\* C25 witness: an uncertain coreference link to "author" has made the source
\* mention an uncertain member of the entity that a SpecialArgument names;
\* the entity is live, nothing was deleted
C25_Witness ==
    /\ pc = "outer"
    /\ uncertain /\ tgt = NoneTid
    /\ last_merge.branch = "uncertain"
    /\ retired = {}
    /\ \E a \in AllSpecialArgs(pas_tbl, pas) :
          /\ a.eid \in DOMAIN entities
          /\ entities[a.eid].exophor = a.exophor
          /\ src \in entities[a.eid].mentions_unc

\* the exophors of the two entities of the merge call are set and differ
ExophorConflict ==
    /\ MergeTables.ent[MergeSource].exophor # "None"
    /\ MergeTables.ent[MergeTarget].exophor # "None"
    /\ MergeTables.ent[MergeSource].exophor # MergeTables.ent[MergeTarget].exophor

\* C26: conflicting exophors.  When a link that is certain, between a source
\* mention certain to the source entity and a target mention (if any)
\* certain to the target entity, joins two entities whose exophors are set
\* and differ, no entity is deleted, the two entities keep their labels and
\* eids, no SpecialArgument changes, and the source mention and the target
\* mention (if any) are certain members of both entities.
C26_ExophorConflict ==
    [][(/\ DistinctMerge
        /\ ~uncertain /\ ~SourceEdgeUncertain /\ ~TargetEdgeUncertain
        /\ ExophorConflict) =>
          /\ DOMAIN MergeTables.ent = DOMAIN entities'
          /\ retired' = retired
          /\ pas_tbl' = pas_tbl
          /\ \A k \in {MergeSource, MergeTarget} :
                /\ entities'[k].exophor = MergeTables.ent[k].exophor
                /\ entities'[k].eid = MergeTables.ent[k].eid
                /\ {src, tgt} \ {NoneTid} \subseteq entities'[k].mentions
                /\ \A d \in {src, tgt} \ {NoneTid} :
                      entities'[k].eid \in mentions'[d].eids
      ]_vars

\* C26 witness: a certain link of a mention of the "author" entity to a
\* second exophor has just been processed: two live entities with different
\* labels have the source mention as a certain member
C26_Witness ==
    /\ pc = "outer"
    /\ last_merge.branch = "conflict"
    /\ \E k1, k2 \in DOMAIN entities :
          /\ entities[k1].exophor \notin {"None", entities[k2].exophor}
          /\ entities[k2].exophor # "None"
          /\ src \in entities[k1].mentions \cap entities[k2].mentions
          /\ {k1, k2} \subseteq mentions[src].eids

\* ---- dropped and rejected markers
\* the marker names a sentence that is not in the document
BadSentence(rel) == rel.sid # NoneSid /\ rel.sid \notin Sids
\* the marker names a sentence of the document and a phrase index past its end
OutOfRange(rel) ==
    /\ rel.sid \in Sids
    /\ rel.tid # MissingTid
    /\ rel.tid >= Cardinality(SentencePhrases(rel.sid))
UnknownType(rel) == rel.atype \notin ALL_CASES \cup ALL_COREFS
InactiveType(rel) == ~UnknownType(rel) /\ rel.atype \notin cases \cup corefs
UnknownExophor(rel) == rel.sid = NoneSid /\ rel.target \notin ALL_EXOPHORS \cup {"nashi"}
\* a coreference link of the phrase `source` to itself
SelfLink(rel, source) ==
    rel.sid \in Sids /\ rel.tid # MissingTid /\ SentLen * rel.sid + rel.tid = source

DroppedCase(rel) ==
    \/ UnknownType(rel) \/ InactiveType(rel) \/ BadSentence(rel)
    \/ OutOfRange(rel) \/ UnknownExophor(rel)
RejectedCoref(rel) ==
    \/ InactiveType(rel) \/ BadSentence(rel) \/ OutOfRange(rel)
    \/ (rel.sid = NoneSid /\ rel.target \notin ALL_EXOPHORS)
    \/ SelfLink(rel, bp)

TablesUnchanged ==
    /\ mentions' = mentions
    /\ entities' = entities
    /\ pas' = pas
    /\ pas_tbl' = pas_tbl
    /\ err' = err

\* C27: dropped markers.  A marker that is dropped or rejected - unknown
\* type, type outside the active case and coreference sets, target sentence
\* not in the document, target phrase index past the end of the sentence,
\* unknown exophor, coreference link of a phrase to itself - leaves the
\* mention table, the entity table and every role list as they were; a
\* rejected coreference link creates no mention for its source phrase.
C27_DroppedMarker ==
    [][/\ \A raw \in PhraseRels(RelTypes, CaseModes) \cup ExoRels(RelTypes, CaseModes) :
             (CaseRel(raw) /\ DroppedCase(Relaxed(raw, relax_cases))) => TablesUnchanged
       /\ \A raw \in PhraseRels(ALL_COREFS, CorefModes) \cup ExoRels(ALL_COREFS, CorefModes) :
             (CorefRel(raw) /\ RejectedCoref(Relaxed(raw, relax_cases))) =>
                 /\ TablesUnchanged
                 /\ pc' = "coref"
                 /\ bp \notin DOMAIN mentions => bp \notin DOMAIN mentions'
      ]_vars

\* C27 witness: the document is built, all its markers were read and every
\* one of them was dropped: there is no mention, no entity and no Pas
C27_Witness ==
    /\ pc = "done"
    /\ nrels = MaxRels
    /\ err = "none"
    /\ mentions = EmptyFn /\ entities = EmptyFn /\ pas_tbl = EmptyFn

\* C28: combination modes.  A coreference relation whose mode is neither
\* plain nor AND (OR, or the question mark) is ignored by the coreference
\* pass: the step that reads it changes neither the mention table nor the
\* entity table, and starts no loop over entities.
C28_OrModeIgnored ==
    [][\A raw \in PhraseRels(ALL_COREFS, CorefModes \ {"", "AND"})
                    \cup ExoRels(ALL_COREFS, CorefModes \ {"", "AND"}) :
          (CorefRel(raw) /\ raw.mode \in {"OR", "Q"}) =>
              /\ mentions' = mentions
              /\ entities' = entities
              /\ pas_tbl' = pas_tbl
              /\ pc' = "coref"
              /\ err' = err
      ]_vars

\* C28 witness: the coreference pass of the first phrase has read a marker
\* (as it does for a link with mode OR) and there is no mention and no entity
C28_Witness ==
    /\ pc = "coref"
    /\ bp = 0
    /\ nrels = 1
    /\ err = "none"
    /\ mentions = EmptyFn /\ entities = EmptyFn

\* ---- overt arguments
\* the role without a trailing uncertain marker and question marker
StrippedRole(case) == rstrip(rstrip(case, "approx"), "Q")
\* the stripped role matches the dependency-case feature of the argument
RoleMatches(case, arg) ==
    \/ StrippedRole(case) = <<"no">> /\ Kakari(arg) \in {"no_kaku", "noQ_kaku"}
    \/ lstrip(StrippedRole(case), "han") \in Features(arg)

\* C29: overt arguments.  An argument that is a syntactic child of its
\* predicate is overt when its role, without a trailing uncertain marker and
\* question marker, matches the dependency-case feature of the argument
\* (GA-approx is overt when GA matches), and dep otherwise.
C29_StrippedRoleDecidesOvert ==
    \A x \in TextualSlots(AllPas) :
        ParentOf(SlotArg(x).dtid) = x[1] =>
            SlotArg(x).dep_type =
                (IF RoleMatches(x[2], SlotArg(x).dtid) THEN "overt" ELSE "dep")

\* ---- duplicate sentence ids
\* C30: duplicate sentence ids.  Whether or not a sentence id repeats an
\* earlier one, every sentence read is appended: after k input sentences the
\* document has k sentences, in input order, and the dtids of its phrases
\* and the dmids of its morphemes are distinct and run 0, 1, 2, ... without
\* gaps up to the counters.
C30_DuplicateSidAppended ==
    /\ Len(Sentences(asm)) = asm.k
    /\ \A i \in 1 .. Len(Sentences(asm)) :
          i <= asm.k => Sentences(asm)[i].sid = asm.input[i].sid
    /\ Counting(DocDtids(asm))
    /\ Counting(DocDmids(asm))
    /\ Len(DocDtids(asm)) = asm.dtid /\ Len(DocDmids(asm)) = asm.dmid

\* ---- named entities
\* the dmids of the sentence read by the NE extraction, and the surface form
\* of the morpheme with a dmid
SentenceDmids == ne.dmid_offset .. (ne.dmid_offset + Len(MrphList(ne.tags, Len(ne.tags))) - 1)
SurfaceAt(dmid) == MrphList(ne.tags, Len(ne.tags))[dmid - ne.dmid_offset + 1].midasi

\* C21: named entities.  For every NamedEntity emitted, dmid_range is a
\* non-empty run of dmids of morphemes of the sentence read, the surface
\* forms of these morphemes put together give the name of the entity, and
\* the run is as long as the span of morphemes matched.
C21_NamedEntitySpan ==
    \A n \in 1 .. Len(ne.named_entities) :
        LET e == ne.named_entities[n]
            run == e.dmid_range.start .. (e.dmid_range.stop - 1)
        IN  /\ run # {}
            /\ run \subseteq SentenceDmids
            /\ Flatten([i \in 1 .. (e.dmid_range.stop - e.dmid_range.start) |->
                            SurfaceAt(e.dmid_range.start + i - 1)]) = e.name
            /\ e.dmid_range.stop - e.dmid_range.start
                  = e.mid_range.stop - e.mid_range.start
            /\ e.category \in NE_CATEGORIES

\* C21 witness: in a sentence that is not the first of its document, a name
\* of three characters has been matched by two morphemes, the first of them
\* in the tag before the marked one
C21_Witness ==
    /\ ne.t = 2
    /\ ne.dmid_offset > 0
    /\ Len(ne.tags[1].mrphs) = 1 /\ Len(ne.tags[2].mrphs) = 1
    /\ \E n \in 1 .. Len(ne.named_entities) :
          /\ Len(ne.named_entities[n].name) = 3
          /\ ne.named_entities[n].dmid_range = Range(ne.dmid_offset, ne.dmid_offset + 2)

\* ---- the span of a named entity
\* the morphemes of the sentence read, the surface text of the morphemes
\* s .. e - 1, and the morphemes of tag t as end positions of a span
AllMrphs == MrphList(ne.tags, Len(ne.tags))
SpanText(s, e) == Flatten([i \in 1 .. (e - s) |-> AllMrphs[s + i].midasi])
TagEnds(t) == (Len(MrphList(ne.tags, t - 1)) + 1) .. Len(MrphList(ne.tags, t))
\* tag t carries a marker of a known category
Marked(t) ==
    ne.tags[t].NE # NoNE /\ SplitNE(ne.tags[t].NE).category \in NE_CATEGORIES
\* the span s .. e - 1 ends in tag t and its text is the text of t's marker
Matches(t, s, e) ==
    e \in TagEnds(t) /\ 0 <= s /\ s < e /\ SpanText(s, e) = SplitNE(ne.tags[t].NE).name
\* the named entity appended by the step, if any
Emitted == Len(ne'.named_entities) = Len(ne.named_entities) + 1
LastNE == ne'.named_entities[Len(ne'.named_entities)]

\* C31 as stated: the span of every emitted Named Entity ends exactly at the
\* last token of the phrase that carries the marker, and is the shortest
\* suffix of the tokens up to there whose text equals the marker's text.
C31_SpanEndsAtLastToken ==
    [][Emitted =>
          LET t == ne.t + 1
              r == LastNE.mid_range
          IN  /\ r.stop = Len(MrphList(ne.tags, t))
              /\ Matches(t, r.start, r.stop)
              /\ \A s \in (r.start + 1) .. (r.stop - 1) : ~Matches(t, s, r.stop)]_vars

\* C31 (amended): a tag with a marker of a known category emits a Named
\* Entity exactly when some run of tokens that ends at a token of the tag has
\* the marker's text; the span emitted ends at the last token of the tag for
\* which such a run exists (not always the last token of the tag), and it is
\* the shortest run ending there whose text equals the marker's text.
C31_SpanEndsInMarkedPhrase ==
    [][ne.t < Len(ne.tags) =>
          LET t == ne.t + 1
              r == LastNE.mid_range
          IN  IF Marked(t) /\ \E e \in TagEnds(t) : \E s \in 0 .. (e - 1) : Matches(t, s, e)
              THEN /\ Emitted
                   /\ LastNE.name = SplitNE(ne.tags[t].NE).name
                   /\ Matches(t, r.start, r.stop)
                   /\ \A s \in (r.start + 1) .. (r.stop - 1) : ~Matches(t, s, r.stop)
                   /\ \A e \in TagEnds(t) : e > r.stop =>
                         \A s \in 0 .. (e - 1) : ~Matches(t, s, e)
              ELSE ne'.named_entities = ne.named_entities]_vars

\* C31 witness: the first tag has emitted a Named Entity whose span stops
\* before the last token of the tag
C31_Witness ==
    /\ ne.t = 1
    /\ Len(ne.named_entities) = 1
    /\ ne.named_entities[1].mid_range.stop < Len(MrphList(ne.tags, 1))

\* ---- optional arguments in the relaxed query
\* the recorded arguments of role c that are not optional, and what their
\* expansion yields: the mentions and the exophor labels of their entities
Required(c) == SelectSeq(Recorded(c), NotOptional)
RequiredEntities(c) == UNION {EntitiesOf(Required(c)[i]) : i \in 1 .. Len(Required(c))}
FromRequired(c, a) ==
    IF a.kind = "arg"
    THEN a.dtid \in DtidsOf(Required(c), 1)
                       \cup UNION {all_mentions(entities[k]) : k \in RequiredEntities(c)}
    ELSE a.exophor \in LabelsOf(Required(c), 1)
                          \cup {entities[k].exophor : k \in RequiredEntities(c)}

\* C32: optional arguments in the relaxed query.  In a relaxed get_arguments
\* call with include_optional false, every argument returned for a role is a
\* recorded non-optional argument of the role or is obtained by expanding
\* one: an optional argument contributes neither itself nor a coreferent
\* mention nor an exophor label.
C32_OptionalContributesNothing ==
    (qres.called /\ qres.relax /\ ~qres.include_optional
        /\ qres.predicate \in DOMAIN pas_tbl) =>
        \A c \in DOMAIN pas_tbl[qres.predicate] :
            \A i \in 1 .. Len(qres.result[c]) : FromRequired(c, qres.result[c][i])

\* ---- the iteration order of the eids
\* _add_corefs is about to start its loop over the eids of the source mention
LoopStart ==
    /\ pc = "outer"
    /\ last_merge = NoMerge
    /\ {src_eids[i] : i \in 1 .. Len(src_eids)} = all_eids(mentions[src])
\* every result the loops can end with from here
LoopResults ==
    AddCorefsOuter(Tables, pas_tbl, src, tgt, exo, uncertain, all_eids(mentions[src]))
\* what the graph of a result says about entity k, whatever its eid: its
\* label, its certain and uncertain mentions, the Special Arguments that
\* refer to it
Signature(o, k) ==
    [exophor |-> o.G.ent[k].exophor,
     mentions |-> o.G.ent[k].mentions,
     mentions_unc |-> o.G.ent[k].mentions_unc,
     args |-> {<<d, c, i>> \in UNION {UNION {{<<d, c, i>> : i \in 1 .. Len(o.P[d][c])} :
                                          c \in DOMAIN o.P[d]} : d \in DOMAIN o.P} :
                  o.P[d][c][i].kind = "exo" /\ o.P[d][c][i].eid = o.G.ent[k].eid}]
\* the stored arguments without their eids
Unnamed(P) ==
    [d \in DOMAIN P |-> [c \in DOMAIN P[d] |-> [i \in 1 .. Len(P[d][c]) |->
        [P[d][c][i] EXCEPT !.eid = NoneEid]]]]
\* two results are the same graph up to a renaming of the eids
SameGraph(o1, o2) ==
    /\ o1.err = o2.err
    /\ o1.err = "none" =>
          /\ Unnamed(o1.P) = Unnamed(o2.P)
          /\ \A sig \in {Signature(o1, k) : k \in DOMAIN o1.G.ent}
                         \cup {Signature(o2, k) : k \in DOMAIN o2.G.ent} :
                Cardinality({k \in DOMAIN o1.G.ent : Signature(o1, k) = sig})
                    = Cardinality({k \in DOMAIN o2.G.ent : Signature(o2, k) = sig})

\* the results the loops can still end with, from a position in the loops
ResultsFrom(p, G, P, srcs, tgts, e) ==
    IF p = "outer"
    THEN AddCorefsOuter(G, P, src, tgt, exo, uncertain, {srcs[i] : i \in 1 .. Len(srcs)})
    ELSE UNION {IF o.err # "none" THEN {o}
                ELSE AddCorefsOuter(o.G, o.P, src, tgt, exo, uncertain,
                                    {srcs[i] : i \in 1 .. Len(srcs)}) :
                    o \in AddCorefsInner(G, P, src, tgt, e, uncertain,
                                         {tgts[i] : i \in 1 .. Len(tgts)})}
\* every step of the loops stays within these results, and the step that
\* leaves the loops ends with one of them
RunsWithinResults ==
    pc \in {"outer", "inner"} =>
        LET now == ResultsFrom(pc, Tables, pas_tbl, src_eids, tgt_eids, se)
            G == [ent |-> entities', men |-> mentions']
        IN  IF pc' \in {"outer", "inner"}
            THEN ResultsFrom(pc', G, pas_tbl', src_eids', tgt_eids', se') \subseteq now
            ELSE IF pc' = "coref" THEN Result(G, pas_tbl', "none") \in now
            ELSE \E o \in now : o.err = err'
AllOrdersSameGraph == LoopStart => \A o1, o2 \in LoopResults : SameGraph(o1, o2)

HasCertainEntity ==
    \A d \in DOMAIN mentions : \E k \in DOMAIN entities :
        d \in entities[k].mentions /\ entities[k].eid \in mentions[d].eids
\* a phrase that enters the mention table is the one certain mention of an
\* entity made in the same step, which has no exophor
MentionBirth ==
    \A d \in DOMAIN mentions' \ DOMAIN mentions :
        \E k \in DOMAIN entities' \ DOMAIN entities :
            /\ entities'[k].exophor = "None"
            /\ entities'[k].mentions = {d} /\ entities'[k].mentions_unc = {}
            /\ mentions'[d] = [eids |-> {entities'[k].eid}, eids_unc |-> {}]
\* the certain mentions of an entity deleted by a merge are certain mentions
\* of the source entity of the merge
DeletionRelinks ==
    MergeCall =>
        \A t \in DOMAIN MergeTables.ent \ DOMAIN entities' :
            /\ MergeSource \in DOMAIN entities'
            /\ \A d \in MergeTables.ent[t].mentions :
                  /\ d \in entities'[MergeSource].mentions
                  /\ entities'[MergeSource].eid \in mentions'[d].eids

\* C34: every mention keeps a certain entity.  In every reachable state every
\* mention of the mention table is a certain member of at least one live
\* entity; a mention starts as the one certain member of a new entity
\* without exophor, and a merge that deletes an entity leaves each of its
\* certain mentions a certain mention of the surviving source entity.
C34_MentionHasCertainEntity ==
    []HasCertainEntity /\ [][MentionBirth /\ DeletionRelinks]_vars

\* C34 witness: a merge has deleted an entity with two certain mentions, one
\* of them neither the source nor the target of the link; the survivor holds
\* three certain mentions
C34_Witness ==
    /\ last_merge.branch = "absorb"
    /\ retired # {}
    /\ \E k \in DOMAIN entities : entities[k].mentions = Phrases

\* C35: certain and uncertain links are disjoint.  In every reachable state
\* no mention holds an eid both in eids and in eids_unc, and no entity holds
\* a mention both in mentions and in mentions_unc.
C35_CertainUncertainDisjoint ==
    /\ \A d \in DOMAIN mentions : mentions[d].eids \cap mentions[d].eids_unc = {}
    /\ \A k \in DOMAIN entities : entities[k].mentions \cap entities[k].mentions_unc = {}

\* C35 witness: a certain link has just made the source mention a certain
\* member of an entity it was an uncertain member of (add_mention has removed
\* the uncertain link); the mention is now a certain member of two entities
C35_Witness ==
    /\ last_merge.branch = "promote_source"
    /\ \E k \in DOMAIN entities :
          /\ src \in entities[k].mentions
          /\ entities[k].eid \in mentions[src].eids
    /\ Cardinality(mentions[src].eids) >= 2

\* ---- the arguments of a merge call
\* a step of the inner loop is about to look up Head(tgt_eids) and call merge
InnerCall == pc = "inner" /\ tgt_eids # <<>>

\* C36: the arguments of merge.  Whenever _add_corefs is about to call merge,
\* the source entity and the target entity are live, the source mention
\* holds the eid of the source entity (as certain or uncertain) and the
\* target mention, if there is one, holds the eid of the target entity: the
\* lookup self.entities[target_eid] does not miss and the assertion of
\* is_uncertain_to does not fail, also after earlier iterations of the loops
\* have deleted entities.  No construction ends with either exception.
C36_MergeArgumentsLinked ==
    /\ InnerCall =>
          /\ Head(tgt_eids) \in DOMAIN entities
          /\ se \in DOMAIN entities
          /\ is_uncertain_to_ok(Tables, src, se)
          /\ is_uncertain_to_ok(Tables, tgt, Head(tgt_eids))
    /\ ExoMerge =>
          /\ is_uncertain_to_ok(Tables, src, Head(src_eids))
          /\ LET r == _create_entity(Tables, exo, NoneEid)
             IN  r.ok => r.eid \in DOMAIN r.G.ent
    /\ pc = "crashed" => err \notin {"KeyError", "assert_is_uncertain_to"}

\* C36 witness: the inner loop is about to call merge after an earlier
\* iteration of the loops of the same link has deleted an entity
C36_Witness ==
    /\ InnerCall
    /\ last_merge.branch = "absorb"
    /\ retired # {}

\* C37: the entity of a Special Argument.  In every reachable state the eid
\* of every SpecialArgument of a stored Pas is the key of a live entity, and
\* the exophor of that entity is the exophor of the argument; the lookup
\* self.entities[arg.eid] of the relaxed query does not miss.
C37_SpecialArgumentEntity ==
    /\ \A a \in AllSpecialArgs(pas_tbl, EmptyFn) :
          /\ a.eid \in DOMAIN entities
          /\ entities[a.eid].eid = a.eid
          /\ entities[a.eid].exophor = a.exophor
    /\ \A d \in DOMAIN pas_tbl : ~QueryMisses(Tables, pas_tbl[d])

\* C37 witness: a merge has deleted the entity a stored SpecialArgument was
\* made with; the argument now names the entity of a mention, which has taken
\* over the exophor
C37_Witness ==
    /\ last_merge.branch = "absorb" /\ last_merge.adopted
    /\ \E a \in AllSpecialArgs(pas_tbl, EmptyFn) :
          /\ a.eid \in DOMAIN entities
          /\ entities[a.eid].mentions # {}
          /\ retired # {}

\* C38: the exophor of an entity is written once.  In every step, an entity
\* that stays live keeps its exophor, except that the source entity of a
\* merge that has no exophor takes the exophor of the target entity it
\* absorbs; an exophor that is set never changes.
C38_ExophorWriteOnce ==
    [][\A k \in DOMAIN entities \cap DOMAIN entities' :
          entities'[k].exophor # entities[k].exophor =>
              /\ entities[k].exophor = "None"
              /\ MergeCall
              /\ k = MergeSource
              /\ MergeTarget \notin DOMAIN entities'
              /\ entities'[k].exophor = MergeTables.ent[MergeTarget].exophor
      ]_vars

\* C38 witness: an entity that had taken over an exophor has been the source
\* of a merge with an entity of another exophor, and has kept its own
C38_Witness ==
    /\ last_merge.branch = "conflict"
    /\ \E k \in DOMAIN entities :
          /\ entities[k].exophor = "author"
          /\ src \in entities[k].mentions
          /\ \E j \in DOMAIN entities :
                entities[j].exophor = "unspec_person" /\ src \in entities[j].mentions

\* ---- a productive exophor as the target of a case relation
\* the role of the Pas being built already holds a SpecialArgument with the
\* label
HoldsLabel(case, exophor) ==
    \E i \in 1 .. Len(Get(pas, case)) :
        Get(pas, case)[i].kind = "exo" /\ Get(pas, case)[i].exophor = exophor
\* entity k is referenced by no argument and no mention after the step
Unreferenced(k) ==
    /\ entities'[k].mentions = {} /\ entities'[k].mentions_unc = {}
    /\ \A d \in DOMAIN mentions' : entities'[k].eid \notin all_eids(mentions'[d])
    /\ \A a \in AllSpecialArgs(pas_tbl', pas') : a.eid # entities'[k].eid
ProductiveCaseStep ==
    \A raw \in ExoRels(RelTypes, CaseModes) :
        (/\ CaseRel(raw)
         /\ Valid(Relaxed(raw, relax_cases))
         /\ Relaxed(raw, relax_cases).atype \in cases
         /\ raw.target \in PRODUCTIVE)
        => LET case == Relaxed(raw, relax_cases).atype
           IN  /\ Cardinality(DOMAIN entities') = Cardinality(DOMAIN entities) + 1
               /\ DOMAIN entities \subseteq DOMAIN entities'
               /\ \A k \in DOMAIN entities' \ DOMAIN entities :
                     /\ entities'[k].exophor = raw.target
                     /\ IF HoldsLabel(case, raw.target)
                        THEN pas' = pas /\ Unreferenced(k)
                        ELSE /\ Len(pas'[case]) = Len(Get(pas, case)) + 1
                             /\ pas'[case][Len(pas'[case])].eid = entities'[k].eid

\* C39: the entity of a skipped argument.  Every relation of an active case
\* role whose target is a productive exophor adds exactly one entity to the
\* live entities, also when the role of the Pas already holds an argument
\* with that label and the SpecialArgument is not added; the entity made for
\* the skipped argument is then referenced by no argument and by no mention.
C39_SkippedArgumentEntity == [][ProductiveCaseStep]_vars

\* C39 witness: the Pas being built holds one argument with a productive
\* label and a second entity with that label, made for the marker that was
\* skipped, is live and referenced by nothing
C39_Witness ==
    /\ pc = "pas"
    /\ \E c \in DOMAIN pas :
          /\ Len(pas[c]) = 1
          /\ pas[c][1].exophor \in PRODUCTIVE
          /\ \E k \in DOMAIN entities :
                /\ k # pas[c][1].eid
                /\ entities[k].exophor = pas[c][1].exophor
                /\ entities[k].mentions = {} /\ entities[k].mentions_unc = {}
                /\ \A a \in AllSpecialArgs(pas_tbl, pas) : a.eid # k

====
